---- MODULE Spec2Model ----
(***************************************************************************)
(* Model of the auto-posting scheduler, the preference store and the       *)
(* manual dispatcher of the Telegram notification bot.                     *)
(*                                                                         *)
(* Time.  The only use the code makes of the wall clock is to stamp        *)
(* lastCheck and to have the content source compare a post's date with     *)
(* the "after" bound.  Time is therefore counted in publication events:    *)
(* the k-th published post has date k, and a stamp taken when k posts      *)
(* exist is k.  A post is "after" a stamp exactly when it was published    *)
(* after the stamp was taken.                                              *)
(***************************************************************************)
EXTENDS Integers, Sequences, FiniteSets, TLC

\* ---- bounds of the model -------------------------------------------------
MaxPosts == 2
MaxTasks == 2

\* ---- program constants ---------------------------------------------------
\* perPage of the scheduler's fetch (checkForNewPosts) and of postLatest
CheckPerPage == 10
LatestPerPage == 1

Null == -1

\* derived limits: every start in progress holds a frame and needs a fresh
\* handle while the chats' stored handles are taken, and the delivery log has
\* room for as many deliveries as there are posts
MaxTimers == MaxTasks + 1
MaxDeliveries == MaxPosts

Chats == {"A", "B"}
\* the destinations the command layer and the timers act on
ActiveChats == {"A"}

PostCategorySets == {{1}}
PostTagSets == {{1}}

\* the selections the command layer commits as filters
CategoryInputs == {<<>>, <<"2", "2", "x", "0">>}
TagInputs == {<<>>, <<"1", "1">>}

VARIABLES
  published,   \* the content source: sequence of posts, oldest first
  cache,       \* preferences.js `cache`: chat id -> preferences object
  intervals,   \* BotService.intervals: chat id -> timer handle
  timers,      \* the live (armed, not cleared) interval timers: handle -> chat id
  tasks,       \* the async invocations in flight: slot -> frame
  delivered,   \* per chat, the posts the transport acknowledged, in order, each
               \* with the sender: "auto" (a check) or "manual" (a command)
  advanced,    \* per chat, the ids passed to updateLastPostId, in order
  sessions,    \* the session store: session key -> session object
  outcome,     \* the last completed handler or store call and how it ended
  sending,     \* the sendPost calls in progress or just ended: slot -> call
  process,     \* the node process of bot.js: running or exited, exit code
  scheduler,   \* SchedulerService: this.jobs, the node-schedule jobs, sends
  metrics      \* MetricsService: this.metrics, the metrics file, the calls

\* the state of the inline-button layer and of the transport calls
uiVars == <<sessions, outcome, sending>>

\* the state of the process and of the two side services
svcVars == <<process, scheduler, metrics>>

vars == <<published, cache, intervals, timers, tasks, delivered, advanced,
          sessions, outcome, sending, process, scheduler, metrics>>

\* no handler or store call has completed yet
NoOutcome == [op |-> "none", user |-> "none", chat |-> "none", result |-> "none"]

\* ---- generic helpers -----------------------------------------------------
Put(f, k, v) == [x \in (DOMAIN f) \cup {k} |-> IF x = k THEN v ELSE f[x]]

Del(f, k) == [x \in (DOMAIN f) \ {k} |-> f[x]]

Range(s) == {s[x] : x \in DOMAIN s}

Max(S) == CHOOSE x \in S : \A y \in S : y <= x

Min(S) == CHOOSE x \in S : \A y \in S : x <= y

\* new Date().toISOString()
Now == Len(published)

\* ---- preferences service -------------------------------------------------
defaultPreferences ==
  [categories |-> <<>>, tags |-> <<>>, autoPosting |-> FALSE,
   lastPostId |-> Null, lastCheck |-> Null]

\* the object getPreferences returns
getPreferences(ch, c) == IF c \in DOMAIN ch THEN ch[c] ELSE defaultPreferences

\* the cache after getPreferences (lazy initialisation)
getPreferencesCache(ch, c) == IF c \in DOMAIN ch THEN ch ELSE Put(ch, c, defaultPreferences)

\* a merge onto the defaults instead of onto the current object
MergeOntoDefaults(current, updates) ==
  [f \in DOMAIN current |->
     IF f \in DOMAIN updates THEN updates[f] ELSE defaultPreferences[f]]

\* { ...current, ...updates }
Merge(current, updates) ==
  [f \in DOMAIN current |-> IF f \in DOMAIN updates THEN updates[f] ELSE current[f]]

\* the cache after resetPreferences(c): cache.del, then getPreferences stores
\* a copy of the defaults again
resetPreferences(ch, c) == getPreferencesCache(Del(ch, c), c)

\* the cache after updatePreferences(c, updates)
updatePreferences(ch, c, updates) == Put(ch, c, Merge(getPreferences(ch, c), updates))

\* the cache after toggleAutoPosting(c, enabled) at time now
toggleAutoPosting(ch, c, enabled, now) ==
  LET current == getPreferences(ch, c) IN
  updatePreferences(ch, c,
    [autoPosting |-> enabled,
     lastCheck |-> IF enabled THEN now ELSE current.lastCheck])

\* the cache after updateLastPostId(c, postId) at time now
updateLastPostId(ch, c, postId, now) ==
  updatePreferences(ch, c, [lastPostId |-> postId, lastCheck |-> now])

\* Number(x) of the entries a filter input can hold
NaN == -1000

Number(x) ==
  CASE x = "0" -> 0 [] x = "1" -> 1 [] x = "2" -> 2 [] x = "5" -> 5
    [] x = "-3" -> -3 [] OTHER -> NaN

\* Boolean(n) for a number
Boolean(n) == n # 0 /\ n # NaN

\* [...new Set(a)]: first occurrences, in order
Uniq(a) ==
  LET idx == SelectSeq([x \in 1..Len(a) |-> x],
                       LAMBDA x : \A y \in 1..(x - 1) : a[y] # a[x])
  IN [x \in 1..Len(idx) |-> a[idx[x]]]

\* [...new Set(list.map(Number).filter(Boolean))]
Normalize(list) ==
  Uniq(SelectSeq([x \in 1..Len(list) |-> Number(list[x])], Boolean))

\* the cache after updateCategories(c, categories)
updateCategories(ch, c, categories) ==
  updatePreferences(ch, c, [categories |-> Normalize(categories)])

\* the cache after updateTags(c, tags)
updateTags(ch, c, tags) ==
  updatePreferences(ch, c, [tags |-> Normalize(tags)])

\* ---- content source ------------------------------------------------------
\* does the post pass the category/tag/after parameters of the request
Matches(p, categories, tags, after) ==
  /\ (Len(categories) > 0 => p.categories \cap Range(categories) # {})
  /\ (Len(tags) > 0 => p.tags \cap Range(tags) # {})
  /\ (after # Null => p.date > after)

Reverse(s) == [x \in 1..Len(s) |-> s[Len(s) + 1 - x]]

Take(s, n) == SubSeq(s, 1, IF Len(s) < n THEN Len(s) ELSE n)

\* wordpress.getPosts: newest first (orderby date, order desc), at most perPage
getPosts(src, categories, tags, perPage, after) ==
  Take(Reverse(SelectSeq(src, LAMBDA p : Matches(p, categories, tags, after))), perPage)

\* ---- frames of the async invocations -----------------------------------
\* kind: "check" (checkForNewPosts), "latest" (handlePostLatest),
\*       "specific" (handlePostSpecific)
\* cont: "arm" when startAutoPosting awaits the check, "none" for a timer tick
\* pc:   the await the invocation is suspended at, or "done"
\* req: the parameters of the getPosts request built from the local `prefs`,
\*      NoReq once the response has arrived
\* lastPostId: `prefs.lastPostId`, the only field of `prefs` read after the fetch
\* posts: the fetched posts; i: the loop position;
\* err: the error caught ("none", "fetch", "send"); arg: the requested post id
\* stopAt (history): the loop position of a check when stopAutoPosting was
\*      called for its chat while auto-posting was enabled, Null when it was not
\*      called during the invocation or startAutoPosting was called since
\* began (history): for the immediate check of a startAutoPosting call, the
\*      time of the call; Null for the other invocations
\* met (history): the ids that manual posts delivered to the chat while this
\*      check was in flight
\* rest: for a start made by startAutoPostingForActiveChats, the chats its
\*      loop has still to start; <<>> for the other invocations
NoReq == [categories |-> <<>>, tags |-> <<>>, after |-> Null]

Frame(kind, c, cont, pc, req, lastPostId, arg) ==
  [kind |-> kind, chat |-> c, cont |-> cont, pc |-> pc, req |-> req,
   lastPostId |-> lastPostId, posts |-> <<>>, i |-> 0, err |-> "none", arg |-> arg,
   stopAt |-> Null, began |-> IF cont = "arm" THEN Now ELSE Null,
   met |-> {}, rest |-> <<>>]

\* the frames are kept in the order the invocations began
Spawn(ts, f) == Append(ts, f)

Drop(ts, t) == [x \in 1..(Len(ts) - 1) |-> IF x < t THEN ts[x] ELSE ts[x + 1]]

\* the frames after a call of stopAutoPosting(c): the checks of c in flight
\* record where they stood
MarkStopped(ts, ch, c) ==
  [x \in DOMAIN ts |->
     IF ts[x].kind = "check" /\ ts[x].chat = c /\ ts[x].stopAt = Null
        /\ getPreferences(ch, c).autoPosting
     THEN [ts[x] EXCEPT !.stopAt = ts[x].i] ELSE ts[x]]

\* the frames after a call of startAutoPosting(c)
ClearStopped(ts, c) ==
  [x \in DOMAIN ts |-> IF ts[x].chat = c THEN [ts[x] EXCEPT !.stopAt = Null] ELSE ts[x]]

\* the frames after a manual post delivered post id to chat c: the checks of
\* c that have not ended record it
MarkMet(ts, c, id) ==
  [x \in DOMAIN ts |->
     IF ts[x].kind = "check" /\ ts[x].chat = c /\ ts[x].pc # "done"
     THEN [ts[x] EXCEPT !.met = @ \cup {id}] ELSE ts[x]]

FreeTimer == Min((1..MaxTimers) \ (DOMAIN timers \cup Range(intervals)))

\* starts whose timer is not armed yet
PendingArms == {t \in DOMAIN tasks : tasks[t].cont = "arm"}

\* `prefs.lastPostId && post.id <= prefs.lastPostId`
Skip(lastPostId, post) ==
  lastPostId # Null /\ lastPostId # 0 /\ post.id <= lastPostId

\* the first loop position at or after `from` that is not skipped, 0 if none
NextIndex(posts, lastPostId, from) ==
  LET S == {j \in from..Len(posts) : ~Skip(lastPostId, posts[j])} IN
  IF S = {} THEN 0 ELSE Min(S)

\* the posts a check has sent so far, in the order it sent them
SentBy(f) ==
  LET upto == IF f.pc = "send" \/ f.err = "send" THEN f.i - 1 ELSE f.i
      idx == SelectSeq([x \in 1..Len(f.posts) |-> x],
                       LAMBDA x : x <= upto /\ ~Skip(f.lastPostId, f.posts[x]))
  IN [x \in 1..Len(idx) |-> f.posts[idx[x]].id]

\* ---- the content source publishes a post --------------------------------
Publish ==
  /\ Len(published) < MaxPosts
  /\ \E cs \in PostCategorySets, ts \in PostTagSets :
       published' = Append(published,
         [id |-> Len(published) + 1, date |-> Len(published) + 1,
          categories |-> cs, tags |-> ts])
  /\ UNCHANGED <<svcVars, uiVars, cache, intervals, timers, tasks, delivered, advanced>>

\* ---- scheduler -----------------------------------------------------------
\* checkForNewPosts up to its first await: read prefs, issue the fetch
CheckFrame(ch, c, cont) ==
  LET prefs == getPreferences(ch, c) IN
  Frame("check", c, cont, "fetch",
        [categories |-> prefs.categories, tags |-> prefs.tags, after |-> prefs.lastCheck],
        prefs.lastPostId, 0)

\* startAutoPosting that leaves the chat's existing interval running
StartAutoPostingNoClear(c) ==
  /\ Len(tasks) < MaxTasks
  /\ LET toggled == toggleAutoPosting(cache, c, TRUE, Now)
     IN /\ Cardinality(DOMAIN timers \cup Range(intervals))
             + Cardinality(PendingArms) < MaxTimers
        /\ timers' = timers
        /\ cache' = toggled
        /\ tasks' = Spawn(ClearStopped(tasks, c), CheckFrame(toggled, c, "arm"))
  /\ UNCHANGED <<svcVars, uiVars, published, intervals, delivered, advanced>>

\* startAutoPosting up to `await this.checkForNewPosts`
StartAutoPosting(c) ==
  /\ Len(tasks) < MaxTasks
  /\ LET cleared == IF c \in DOMAIN intervals THEN Del(timers, intervals[c]) ELSE timers
         toggled == toggleAutoPosting(cache, c, TRUE, Now)
     IN /\ Cardinality(DOMAIN cleared \cup Range(intervals))
             + Cardinality(PendingArms) < MaxTimers
        /\ timers' = cleared
        /\ cache' = toggled
        /\ tasks' = Spawn(ClearStopped(tasks, c), CheckFrame(toggled, c, "arm"))
  /\ UNCHANGED <<svcVars, uiVars, published, intervals, delivered, advanced>>

\* startAutoPosting after the awaited check: arm the interval
ArmTimer(t) ==
  /\ t \in DOMAIN tasks
  /\ tasks[t].kind = "check" /\ tasks[t].cont = "arm" /\ tasks[t].pc = "done"
  /\ tasks[t].rest = <<>>
  /\ intervals' = Put(intervals, tasks[t].chat, FreeTimer)
  /\ timers' = Put(timers, FreeTimer, tasks[t].chat)
  /\ tasks' = Drop(tasks, t)
  /\ UNCHANGED <<svcVars, uiVars, published, cache, delivered, advanced>>

\* preferences.getActiveChats
getActiveChats(ch) == {c \in DOMAIN ch : ch[c].autoPosting}

\* the orders in which cache.keys() may list the chats of S
Orders(S) ==
  {q \in [1..Cardinality(S) -> S] : \A x, y \in 1..Cardinality(S) : x # y => q[x] # q[y]}

\* startAutoPostingForActiveChats: the loop reads the active chats and awaits
\* startAutoPosting of the first
StartAutoPostingForActiveChats ==
  /\ Len(tasks) < MaxTasks
  /\ \A t \in DOMAIN tasks : tasks[t].rest = <<>>
  /\ \E order \in Orders(getActiveChats(cache)) :
       /\ order # <<>>
       /\ LET c == Head(order)
              cleared == IF c \in DOMAIN intervals THEN Del(timers, intervals[c]) ELSE timers
              toggled == toggleAutoPosting(cache, c, TRUE, Now)
          IN /\ Cardinality(DOMAIN cleared \cup Range(intervals))
                  + Cardinality(PendingArms) < MaxTimers
             /\ timers' = cleared
             /\ cache' = toggled
             /\ tasks' = Spawn(ClearStopped(tasks, c),
                               [CheckFrame(toggled, c, "arm") EXCEPT !.rest = Tail(order)])
  /\ UNCHANGED <<svcVars, uiVars, published, intervals, delivered, advanced>>

\* startAutoPostingForActiveChats after an awaited startAutoPosting: that start
\* arms its interval and the loop calls startAutoPosting of the next chat
ArmTimerNext(t) ==
  /\ t \in DOMAIN tasks
  /\ tasks[t].kind = "check" /\ tasks[t].cont = "arm" /\ tasks[t].pc = "done"
  /\ tasks[t].rest # <<>>
  /\ LET c == Head(tasks[t].rest)
         armedI == Put(intervals, tasks[t].chat, FreeTimer)
         armedT == Put(timers, FreeTimer, tasks[t].chat)
         cleared == IF c \in DOMAIN armedI THEN Del(armedT, armedI[c]) ELSE armedT
         toggled == toggleAutoPosting(cache, c, TRUE, Now)
     IN /\ Cardinality(DOMAIN cleared \cup Range(armedI))
             + Cardinality(PendingArms) - 1 < MaxTimers
        /\ intervals' = armedI
        /\ timers' = cleared
        /\ cache' = toggled
        /\ tasks' = Spawn(ClearStopped(Drop(tasks, t), c),
                          [CheckFrame(toggled, c, "arm") EXCEPT !.rest = Tail(tasks[t].rest)])
  /\ UNCHANGED <<svcVars, uiVars, published, delivered, advanced>>

\* stopAutoPosting
StopAutoPosting(c) ==
  /\ IF c \in DOMAIN intervals
     THEN /\ timers' = Del(timers, intervals[c])
          /\ intervals' = Del(intervals, c)
          /\ cache' = toggleAutoPosting(cache, c, FALSE, Now)
     ELSE UNCHANGED <<svcVars, timers, intervals, cache>>
  /\ tasks' = MarkStopped(tasks, cache, c)
  /\ UNCHANGED <<svcVars, uiVars, published, delivered, advanced>>

\* a live interval timer fires: () => this.checkForNewPosts(chatIdStr)
TimerFire(h) ==
  /\ h \in DOMAIN timers
  /\ Len(tasks) < MaxTasks
  /\ cache' = getPreferencesCache(cache, timers[h])
  /\ tasks' = Spawn(tasks, CheckFrame(cache, timers[h], "none"))
  /\ UNCHANGED <<svcVars, uiVars, published, intervals, timers, delivered, advanced>>

\* the for loop of checkForNewPosts from position `from` to the next await,
\* or past the loop to the lastCheck update and the end of the function
LoopFrom(t, f, from) ==
  LET j == NextIndex(f.posts, f.lastPostId, from) IN
  IF j # 0
  THEN /\ tasks' = [tasks EXCEPT ![t] = [f EXCEPT !.pc = "send", !.i = j]]
       /\ cache' = cache
  ELSE /\ tasks' = [tasks EXCEPT ![t] = [f EXCEPT !.pc = "done", !.i = Len(f.posts)]]
       /\ cache' = updatePreferences(cache, f.chat, [lastCheck |-> Now])

\* wordpress.getPosts resolves
CheckFetchOk(t) ==
  /\ t \in DOMAIN tasks
  /\ tasks[t].kind = "check" /\ tasks[t].pc = "fetch"
  /\ LET f == tasks[t]
         posts == getPosts(published, f.req.categories, f.req.tags,
                           CheckPerPage, f.req.after)
     IN LoopFrom(t, [f EXCEPT !.posts = posts, !.req = NoReq], 1)
  /\ UNCHANGED <<svcVars, uiVars, published, intervals, timers, delivered, advanced>>

\* a check that stamps lastCheck although its fetch rejected
CheckFetchFailStamp(t) ==
  /\ t \in DOMAIN tasks
  /\ tasks[t].kind = "check" /\ tasks[t].pc = "fetch"
  /\ tasks' = [tasks EXCEPT ![t] = [tasks[t] EXCEPT !.pc = "done", !.err = "fetch", !.req = NoReq]]
  /\ cache' = updatePreferences(cache, tasks[t].chat, [lastCheck |-> Now])
  /\ UNCHANGED <<svcVars, uiVars, published, intervals, timers, delivered, advanced>>

\* wordpress.getPosts rejects: caught and logged by checkForNewPosts
CheckFetchFail(t) ==
  /\ t \in DOMAIN tasks
  /\ tasks[t].kind = "check" /\ tasks[t].pc = "fetch"
  /\ tasks' = [tasks EXCEPT ![t] = [tasks[t] EXCEPT !.pc = "done", !.err = "fetch", !.req = NoReq]]
  /\ UNCHANGED <<svcVars, uiVars, published, cache, intervals, timers, delivered, advanced>>

\* sendPost resolves: the cursor is updated and the delay begins
CheckSendOk(t) ==
  /\ t \in DOMAIN tasks
  /\ tasks[t].kind = "check" /\ tasks[t].pc = "send"
  /\ LET f == tasks[t]
         post == f.posts[f.i]
     IN /\ Len(delivered[f.chat]) < MaxDeliveries
        /\ delivered' = [delivered EXCEPT
             ![f.chat] = Append(@, [id |-> post.id, by |-> "auto"])]
        /\ cache' = updateLastPostId(cache, f.chat, post.id, Now)
        /\ advanced' = [advanced EXCEPT ![f.chat] = Append(@, post.id)]
        /\ tasks' = [tasks EXCEPT ![t] = [f EXCEPT !.pc = "delay"]]
  /\ UNCHANGED <<svcVars, uiVars, published, intervals, timers>>

\* a check that moves the cursor although sendPost rejected
CheckSendFailAdvance(t) ==
  /\ t \in DOMAIN tasks
  /\ tasks[t].kind = "check" /\ tasks[t].pc = "send"
  /\ cache' = updateLastPostId(cache, tasks[t].chat, tasks[t].posts[tasks[t].i].id, Now)
  /\ tasks' = [tasks EXCEPT ![t] = [tasks[t] EXCEPT !.pc = "done", !.err = "send"]]
  /\ UNCHANGED <<svcVars, uiVars, published, intervals, timers, delivered, advanced>>

\* sendPost rejects: caught and logged by checkForNewPosts, the loop is left
CheckSendFail(t) ==
  /\ t \in DOMAIN tasks
  /\ tasks[t].kind = "check" /\ tasks[t].pc = "send"
  /\ tasks' = [tasks EXCEPT ![t] = [tasks[t] EXCEPT !.pc = "done", !.err = "send"]]
  /\ UNCHANGED <<svcVars, uiVars, published, cache, intervals, timers, delivered, advanced>>

\* the 500 ms delay between posts elapses
CheckDelayDone(t) ==
  /\ t \in DOMAIN tasks
  /\ tasks[t].kind = "check" /\ tasks[t].pc = "delay"
  /\ LoopFrom(t, tasks[t], tasks[t].i + 1)
  /\ UNCHANGED <<svcVars, uiVars, published, intervals, timers, delivered, advanced>>

\* the promise of a timer-driven check settles; nothing awaits it
TickReturn(t) ==
  /\ t \in DOMAIN tasks
  /\ tasks[t].kind = "check" /\ tasks[t].cont = "none" /\ tasks[t].pc = "done"
  /\ tasks' = Drop(tasks, t)
  /\ UNCHANGED <<svcVars, uiVars, published, cache, intervals, timers, delivered, advanced>>

\* ---- manual dispatcher ---------------------------------------------------
\* handlePostLatest up to `await ctx.reply`: the admin check passed, prefs read
PostLatest(c) ==
  /\ Len(tasks) < MaxTasks
  /\ cache' = getPreferencesCache(cache, c)
  /\ LET prefs == getPreferences(cache, c) IN
     tasks' = Spawn(tasks, Frame("latest", c, "none", "reply",
       [categories |-> prefs.categories, tags |-> prefs.tags, after |-> Null], Null, 0))
  /\ UNCHANGED <<svcVars, uiVars, published, intervals, timers, delivered, advanced>>

\* handlePostSpecific up to `await ctx.reply`: the argument is a number
PostSpecific(c, postId) ==
  /\ Len(tasks) < MaxTasks
  /\ tasks' = Spawn(tasks, Frame("specific", c, "none", "reply", NoReq, Null, postId))
  /\ UNCHANGED <<svcVars, uiVars, published, cache, intervals, timers, delivered, advanced>>

\* the loading message is sent; the handler issues its fetch
ManualReplyOk(t) ==
  /\ t \in DOMAIN tasks
  /\ tasks[t].kind \in {"latest", "specific"} /\ tasks[t].pc = "reply"
  /\ tasks' = [tasks EXCEPT ![t] = [tasks[t] EXCEPT !.pc = "fetch"]]
  /\ UNCHANGED <<svcVars, uiVars, published, cache, intervals, timers, delivered, advanced>>

\* the loading message fails: the handler throws before its try block
ManualReplyFail(t) ==
  /\ t \in DOMAIN tasks
  /\ tasks[t].kind \in {"latest", "specific"} /\ tasks[t].pc = "reply"
  /\ tasks' = Drop(tasks, t)
  /\ UNCHANGED <<svcVars, uiVars, published, cache, intervals, timers, delivered, advanced>>

\* handlePostLatest: getPosts({categories, tags, perPage: 1}) resolves
LatestFetchOk(t) ==
  /\ t \in DOMAIN tasks
  /\ tasks[t].kind = "latest" /\ tasks[t].pc = "fetch"
  /\ LET f == tasks[t]
         posts == getPosts(published, f.req.categories, f.req.tags,
                           LatestPerPage, f.req.after)
     IN IF Len(posts) > 0
        THEN tasks' = [tasks EXCEPT ![t] =
               [f EXCEPT !.pc = "send", !.posts = posts, !.i = 1, !.req = NoReq]]
        ELSE tasks' = Drop(tasks, t)
  /\ UNCHANGED <<svcVars, uiVars, published, cache, intervals, timers, delivered, advanced>>

\* wordpress.getPostById: the post, when the source has it
getPostById(src, id) == SelectSeq(src, LAMBDA p : p.id = id)

\* handlePostSpecific: getPostById resolves
SpecificFetchOk(t) ==
  /\ t \in DOMAIN tasks
  /\ tasks[t].kind = "specific" /\ tasks[t].pc = "fetch"
  /\ Len(getPostById(published, tasks[t].arg)) > 0
  /\ tasks' = [tasks EXCEPT ![t] =
       [tasks[t] EXCEPT !.pc = "send", !.posts = getPostById(published, tasks[t].arg), !.i = 1]]
  /\ UNCHANGED <<svcVars, uiVars, published, cache, intervals, timers, delivered, advanced>>

\* a handler that records the requested id as the cursor although its fetch
\* rejected
ManualFetchFailAdvance(t) ==
  /\ t \in DOMAIN tasks
  /\ tasks[t].kind \in {"latest", "specific"} /\ tasks[t].pc = "fetch"
  /\ cache' = updateLastPostId(cache, tasks[t].chat, tasks[t].arg, Now)
  /\ tasks' = Drop(tasks, t)
  /\ UNCHANGED <<svcVars, uiVars, published, intervals, timers, delivered, advanced>>

\* the fetch of a manual post rejects (no such post, or the source is down):
\* caught by the handler, which reports the failure
ManualFetchFail(t) ==
  /\ t \in DOMAIN tasks
  /\ tasks[t].kind \in {"latest", "specific"} /\ tasks[t].pc = "fetch"
  /\ tasks' = Drop(tasks, t)
  /\ UNCHANGED <<svcVars, uiVars, published, cache, intervals, timers, delivered, advanced>>

\* a manual post that delivers without recording the delivery in the
\* preferences
ManualSendOkNoCursor(t) ==
  /\ t \in DOMAIN tasks
  /\ tasks[t].kind \in {"latest", "specific"} /\ tasks[t].pc = "send"
  /\ LET f == tasks[t]
         post == f.posts[1]
     IN /\ Len(delivered[f.chat]) < MaxDeliveries
        /\ delivered' = [delivered EXCEPT
             ![f.chat] = Append(@, [id |-> post.id, by |-> "manual"])]
        /\ tasks' = Drop(MarkMet(tasks, f.chat, post.id), t)
  /\ UNCHANGED <<svcVars, uiVars, published, cache, intervals, timers, advanced>>

\* sendPost of a manual post resolves: the cursor is updated
ManualSendOk(t) ==
  /\ t \in DOMAIN tasks
  /\ tasks[t].kind \in {"latest", "specific"} /\ tasks[t].pc = "send"
  /\ LET f == tasks[t]
         post == f.posts[1]
     IN /\ Len(delivered[f.chat]) < MaxDeliveries
        /\ delivered' = [delivered EXCEPT
             ![f.chat] = Append(@, [id |-> post.id, by |-> "manual"])]
        /\ cache' = updateLastPostId(cache, f.chat, post.id, Now)
        /\ advanced' = [advanced EXCEPT ![f.chat] = Append(@, post.id)]
        /\ tasks' = Drop(MarkMet(tasks, f.chat, post.id), t)
  /\ UNCHANGED <<svcVars, uiVars, published, intervals, timers>>

\* sendPost of a manual post rejects: caught by the handler
ManualSendFail(t) ==
  /\ t \in DOMAIN tasks
  /\ tasks[t].kind \in {"latest", "specific"} /\ tasks[t].pc = "send"
  /\ tasks' = Drop(tasks, t)
  /\ UNCHANGED <<svcVars, uiVars, published, cache, intervals, timers, delivered, advanced>>

\* ---- filter updates -----------------------------------------------------
\* a selection is saved as the chat's category filter
SetCategories(c, list) ==
  /\ cache' = updateCategories(cache, c, list)
  /\ cache' # cache
  /\ UNCHANGED <<svcVars, uiVars, published, intervals, timers, tasks, delivered, advanced>>

\* a selection is saved as the chat's tag filter
SetTags(c, list) ==
  /\ cache' = updateTags(cache, c, list)
  /\ cache' # cache
  /\ UNCHANGED <<svcVars, uiVars, published, intervals, timers, tasks, delivered, advanced>>

\* ---- construction --------------------------------------------------------
\* the process is up and no signal has arrived
Running ==
  [state |-> "running", signal |-> "none", code |-> Null,
   killed |-> [timers |-> {}, tasks |-> 0]]

\* SchedulerService constructor: this.jobs = new Map(), nothing scheduled
NoJobs ==
  [jobs |-> <<>>,      \* this.jobs: job id -> registry entry
   handles |-> <<>>,   \* the node-schedule Job objects made so far, by name
   clock |-> 1,        \* Date.now()
   sent |-> <<>>,      \* the sends that sendPost acknowledged, in order
   cancelled |-> {},   \* the jobs whose cancelScheduledPost returned success
   returned |-> [op |-> "none", chat |-> "none", success |-> FALSE, value |-> {}]]

\* this.metrics as the constructor sets it
DefaultMetrics ==
  [totalUsers |-> 0, userEngagement |-> <<>>, commandUsage |-> <<>>]

\* no metrics file on disk (readFile fails with ENOENT)
NoFile == [exists |-> FALSE, data |-> DefaultMetrics]

\* MetricsService before its constructor has run
NoMetrics ==
  [metrics |-> DefaultMetrics,  \* this.metrics
   file |-> NoFile,             \* data/metrics.json
   load |-> "none",             \* where initialize() / loadMetrics() stands
   data |-> DefaultMetrics,     \* what readFile read
   calls |-> <<>>,              \* the trackCommand calls awaiting trackNewUser
   made |-> 0,                  \* the tracking calls made since construction
   seen |-> {},                 \* the users tracked since construction
   finished |-> <<>>]           \* per user, the trackCommand calls that ended

Init ==
  /\ published = <<>>
  /\ cache = <<>>
  /\ intervals = <<>>
  /\ timers = <<>>
  /\ tasks = <<>>
  /\ delivered = [c \in Chats |-> <<>>]
  /\ sessions = <<>>
  /\ outcome = NoOutcome
  /\ sending = <<>>
  /\ advanced = [c \in Chats |-> <<>>]
  /\ process = Running
  /\ scheduler = NoJobs
  /\ metrics = NoMetrics

\* the scheduler alone: starts, stops, timer ticks
NextAuto ==
  \/ Publish
  \/ \E c \in ActiveChats : StartAutoPosting(c)
  \/ \E c \in ActiveChats : StopAutoPosting(c)
  \/ \E h \in 1..MaxTimers : TimerFire(h)
  \/ \E t \in 1..MaxTasks : ArmTimer(t)
  \/ \E t \in 1..MaxTasks : CheckFetchOk(t)
  \/ \E t \in 1..MaxTasks : CheckFetchFail(t)
  \/ \E t \in 1..MaxTasks : CheckSendOk(t)
  \/ \E t \in 1..MaxTasks : CheckSendFail(t)
  \/ \E t \in 1..MaxTasks : CheckDelayDone(t)
  \/ \E t \in 1..MaxTasks : TickReturn(t)

SpecAuto == Init /\ [][NextAuto]_vars

\* the frames of checks, and of manual posts, in flight
ChecksInFlight == {t \in DOMAIN tasks : tasks[t].kind = "check"}

ManualInFlight == {t \in DOMAIN tasks : tasks[t].kind \in {"latest", "specific"}}

\* timer-driven checks in flight
TicksInFlight == {t \in ChecksInFlight : tasks[t].cont = "none"}

\* /post_latest while no other manual post is in flight
PostLatestOne(c) ==
  /\ ManualInFlight = {}
  /\ PostLatest(c)

\* /post_specific <id> while no other manual post is in flight
PostSpecificOne(c, postId) ==
  /\ ManualInFlight = {}
  /\ PostSpecific(c, postId)

\* the manual dispatcher
NextPost ==
  \/ \E c \in ActiveChats : PostLatestOne(c)
  \/ \E c \in ActiveChats, id \in 1..(MaxPosts + 1) : PostSpecificOne(c, id)
  \/ \E t \in 1..MaxTasks : ManualReplyOk(t)
  \/ \E t \in 1..MaxTasks : ManualReplyFail(t)
  \/ \E t \in 1..MaxTasks : LatestFetchOk(t)
  \/ \E t \in 1..MaxTasks : SpecificFetchOk(t)
  \/ \E t \in 1..MaxTasks : ManualFetchFail(t)
  \/ \E t \in 1..MaxTasks : ManualSendOk(t)
  \/ \E t \in 1..MaxTasks : ManualSendFail(t)

\* the manual dispatcher and the filter updates
NextManual ==
  \/ NextPost
  \/ \E c \in ActiveChats, list \in CategoryInputs : SetCategories(c, list)

\* ---- the preference store called directly --------------------------------
\* preferences.updateLastPostId(c, postId), as any caller may invoke it
UpdateLastPostIdCall(c, postId) ==
  /\ Len(advanced[c]) < MaxDeliveries
  /\ cache' = updateLastPostId(cache, c, postId, Now)
  /\ advanced' = [advanced EXCEPT ![c] = Append(@, postId)]
  /\ UNCHANGED <<svcVars, uiVars, published, intervals, timers, tasks, delivered>>

\* preferences.toggleAutoPosting(c, enabled)
ToggleAutoPostingCall(c, enabled) ==
  /\ cache' = toggleAutoPosting(cache, c, enabled, Now)
  /\ cache' # cache
  /\ UNCHANGED <<svcVars, uiVars, published, intervals, timers, tasks, delivered, advanced>>

NextStore ==
  \/ Publish
  \/ \E c \in ActiveChats, id \in 1..(MaxPosts + 1) : UpdateLastPostIdCall(c, id)
  \/ \E c \in Chats, e \in BOOLEAN : ToggleAutoPostingCall(c, e)
  \/ \E c \in Chats, list \in CategoryInputs : SetCategories(c, list)
  \/ \E c \in Chats, list \in TagInputs : SetTags(c, list)

SpecStore == Init /\ [][NextStore]_vars

\* ---- the scheduler with one start at a time ------------------------------
\* startAutoPosting called when no earlier call is still awaiting its check
StartAutoPostingSeq(c) ==
  /\ PendingArms = {}
  /\ StartAutoPosting(c)

\* a timer fires while no earlier timer-driven check is in flight
TimerFireOne(h) ==
  /\ TicksInFlight = {}
  /\ TimerFire(h)

NextSeq ==
  \/ Publish
  \/ \E c \in ActiveChats : StartAutoPostingSeq(c)
  \/ \E c \in ActiveChats : StopAutoPosting(c)
  \/ \E h \in 1..MaxTimers : TimerFireOne(h)
  \/ \E t \in 1..MaxTasks : ArmTimer(t)
  \/ \E t \in 1..MaxTasks : CheckFetchOk(t)
  \/ \E t \in 1..MaxTasks : CheckFetchFail(t)
  \/ \E t \in 1..MaxTasks : CheckSendOk(t)
  \/ \E t \in 1..MaxTasks : CheckSendFail(t)
  \/ \E t \in 1..MaxTasks : CheckDelayDone(t)
  \/ \E t \in 1..MaxTasks : TickReturn(t)

SpecSeq == Init /\ [][NextSeq]_vars

\* ---- the scheduler with one check at a time ------------------------------
\* startAutoPosting called while no check is in flight
StartAutoPostingIdle(c) ==
  /\ ChecksInFlight = {}
  /\ StartAutoPosting(c)

\* a timer fires while no check is in flight
TimerFireIdle(h) ==
  /\ ChecksInFlight = {}
  /\ TimerFire(h)

NextTick ==
  \/ Publish
  \/ \E c \in ActiveChats : StartAutoPostingIdle(c)
  \/ \E c \in ActiveChats : StopAutoPosting(c)
  \/ \E h \in 1..MaxTimers : TimerFireIdle(h)
  \/ \E t \in 1..MaxTasks : ArmTimer(t)
  \/ \E t \in 1..MaxTasks : CheckFetchOk(t)
  \/ \E t \in 1..MaxTasks : CheckFetchFail(t)
  \/ \E t \in 1..MaxTasks : CheckSendOk(t)
  \/ \E t \in 1..MaxTasks : CheckSendFail(t)
  \/ \E t \in 1..MaxTasks : CheckDelayDone(t)
  \/ \E t \in 1..MaxTasks : TickReturn(t)

SpecTick == Init /\ [][NextTick]_vars

\* ---- one check at a time, one manual post at a time, filter updates ------
Next == NextTick \/ NextManual

Spec == Init /\ [][Next]_vars

\* ---- one check at a time, one manual post at a time ---------------------
NextTickPost == NextTick \/ NextPost

SpecPost == Init /\ [][NextTickPost]_vars

\* ---- properties ----------------------------------------------------------
\* the cursor of a chat, null while the chat has no entry
Cursor(ch, c) == IF c \in DOMAIN ch THEN ch[c].lastPostId ELSE Null

\* the live timers of a chat
LiveTimers(c) == {h \in DOMAIN timers : timers[h] = c}

\* the check frames that have run to their end
DoneChecks == {t \in DOMAIN tasks : tasks[t].kind = "check" /\ tasks[t].pc = "done"}

\* the ids of a delivery log, in order
Ids(q) == [x \in 1..Len(q) |-> q[x].id]

IsAscending(q) == \A x \in 1..(Len(q) - 1) : q[x] < q[x + 1]

\* C1: after any sequence of updateLastPostId calls on a chat, the stored
\* cursor is the largest id that was passed (a call with an id that is not
\* greater than the cursor leaves the cursor alone).
C1_CursorIsMaxOfCalls ==
  \A c \in Chats :
    advanced[c] # <<>> => Cursor(cache, c) = Max(Range(advanced[c]))

\* C2: without reset, the cursor of a chat never takes a value smaller than
\* one it held before.
C2_CursorNeverDecreases ==
  [][\A c \in Chats : Cursor(cache', c) >= Cursor(cache, c)]_vars

\* C3: a check in which every delivery succeeded has sent exactly the fetched
\* posts whose id exceeds the cursor read at its start, each once, and leaves
\* the cursor at the largest id it sent (unchanged when it sent nothing).
C3_TickDeliversBacklog ==
  \A t \in DoneChecks :
    LET f == tasks[t]
        sent == SentBy(f)
        backlog == {f.posts[x].id : x \in {y \in 1..Len(f.posts) :
                       f.lastPostId = Null \/ f.posts[y].id > f.lastPostId}}
    IN f.err = "none" =>
         /\ Range(sent) = backlog
         /\ Len(sent) = Cardinality(backlog)
         /\ Cursor(cache, f.chat) = IF sent = <<>> THEN f.lastPostId ELSE Max(Range(sent))

\* C4: within one check the posts are sent in ascending id order.
C4_TickSendsAscending ==
  \A t \in DOMAIN tasks : tasks[t].kind = "check" => IsAscending(SentBy(tasks[t]))

\* C5: when the delivery of post k fails in a check, the check has attempted
\* no post beyond k and the cursor is left below k, at the last post sent
\* before k (at its value from the start of the check when none was sent).
C5_FailureStopsBacklog ==
  \A t \in DoneChecks :
    LET f == tasks[t]
        sent == SentBy(f)
        k == f.posts[f.i].id
    IN f.err = "send" =>
         /\ \A x \in Range(sent) : x < k
         /\ Cursor(cache, f.chat) < k
         /\ Cursor(cache, f.chat) = IF sent = <<>> THEN f.lastPostId ELSE sent[Len(sent)]

\* C6: the cursor changes only in a step in which the transport acknowledged
\* the delivery of that very post to that chat, so a non-null cursor is always
\* the id of a post already delivered to the chat and a failed delivery leaves
\* the cursor alone.
C6_CursorOnlyAfterAck ==
  /\ [](\A c \in Chats :
          Cursor(cache, c) # Null => Cursor(cache, c) \in Range(Ids(delivered[c])))
  /\ [][\A c \in Chats :
          Cursor(cache', c) # Cursor(cache, c)
            => Ids(delivered'[c]) = Append(Ids(delivered[c]), Cursor(cache', c))]_vars

\* C6 witness: a delivery failed after an earlier one had set the cursor.
C6_Witness ==
  \E t \in DOMAIN tasks :
    /\ tasks[t].pc = "done" /\ tasks[t].err = "send"
    /\ Cursor(cache, tasks[t].chat) # Null
    /\ Cursor(cache, tasks[t].chat) \in Range(Ids(delivered[tasks[t].chat]))

\* C7: the auto-poster never delivers the same post to a chat twice.
C7_NoDuplicateDelivery ==
  \A c \in Chats :
    \A x, y \in 1..Len(delivered[c]) : x # y => delivered[c][x].id # delivered[c][y].id

\* C8: no post is missed.  A post whose delivery failed in a check, and that
\* has not been delivered since, is still a candidate of the next check while
\* auto-posting is enabled: the source returns it for the stored lastCheck and
\* the stored cursor does not skip it.  (lastCheck never moves back, so a post
\* that stops being a candidate is never fetched again.)
C8_FailedPostStaysPending ==
  \A t \in DoneChecks :
    LET f == tasks[t]
        p == f.posts[f.i]
        prefs == getPreferences(cache, f.chat)
    IN (f.err = "send" /\ prefs.autoPosting /\ p.id \notin Range(Ids(delivered[f.chat]))) =>
         /\ Matches(p, prefs.categories, prefs.tags, prefs.lastCheck)
         /\ ~Skip(prefs.lastPostId, p)

\* C9: a chat never has more than one live interval timer.
C9_AtMostOneLiveTimer ==
  \A c \in Chats : Cardinality(LiveTimers(c)) <= 1

\* C10: when the calls of startAutoPosting for a chat do not overlap, the
\* earlier timer is cancelled before the next is armed: no timer of the chat is
\* live while a start awaits its check, and once the start has armed its timer
\* that timer is the chat's only live timer.
C10_SequentialStartOneTimer ==
  \A c \in Chats :
    IF \E t \in PendingArms : tasks[t].chat = c
    THEN LiveTimers(c) = {}
    ELSE LiveTimers(c) = IF c \in DOMAIN intervals THEN {intervals[c]} ELSE {}

\* C10 witness: a second start has completed after the first: the handle the
\* first start armed is gone and the second one's is the only live timer.
C10_Witness ==
  /\ PendingArms = {}
  /\ "A" \in DOMAIN intervals
  /\ intervals["A"] = 2
  /\ DOMAIN timers = {2}

\* the checks in flight during which stopAutoPosting was called for their
\* chat while it was enabled, with no startAutoPosting since
StoppedChecks == {t \in DOMAIN tasks : tasks[t].kind = "check" /\ tasks[t].stopAt # Null}

\* C11: after stopAutoPosting(c) is called for a chat whose auto-posting is
\* enabled, the chat has no timer handle and no live timer and its autoPosting
\* flag is false, and until startAutoPosting(c) is called again no timer is
\* armed for the chat and no check of the chat begins.
C11_StopCancelsAndDisables ==
  /\ [](\A t \in StoppedChecks :
          /\ ~getPreferences(cache, tasks[t].chat).autoPosting
          /\ tasks[t].chat \notin DOMAIN intervals
          /\ LiveTimers(tasks[t].chat) = {})
  /\ [][\A c \in Chats :
          (c \in DOMAIN intervals /\ c \notin DOMAIN intervals')
            => /\ ~getPreferences(cache', c).autoPosting
               /\ \A h \in DOMAIN timers' : timers'[h] # c]_vars
  /\ [][\A t \in StoppedChecks :
          /\ tasks[t].chat \notin DOMAIN intervals'
          /\ \A h \in DOMAIN timers' : timers'[h] # tasks[t].chat
          /\ Len(tasks') <= Len(tasks)]_vars

\* C12: when stopAutoPosting(c) is called while a timer-driven check of c is
\* in flight, the check may finish the delivery it is awaiting at that moment
\* but delivers no post at a later loop position.
C12_StoppedTickDeliversNoMore ==
  \A t \in StoppedChecks :
    (tasks[t].cont = "none" /\ tasks[t].pc = "delay") => tasks[t].i <= tasks[t].stopAt

\* the invocation a step begins, when it begins one
Begins(kind, cont, c) ==
  /\ Len(tasks') = Len(tasks) + 1
  /\ tasks'[Len(tasks')].kind = kind
  /\ tasks'[Len(tasks')].cont = cont
  /\ tasks'[Len(tasks')].chat = c

\* C13: startAutoPosting(c) sets autoPosting before it begins its immediate
\* check, arms the timer only once that check has run to its end, and no
\* timer-driven check of c begins while the start awaits its immediate check.
C13_StartOrder ==
  /\ [][\A c \in Chats :
          Begins("check", "arm", c) => getPreferences(cache', c).autoPosting]_vars
  /\ [][\A h \in DOMAIN timers' :
          h \notin DOMAIN timers
            => \E t \in PendingArms :
                 /\ tasks[t].chat = timers'[h] /\ tasks[t].pc = "done"
                 /\ Len(tasks') = Len(tasks) - 1]_vars
  /\ [][\A t \in PendingArms : ~Begins("check", "none", tasks[t].chat)]_vars

\* the posts published up to time `at` that pass the filters and that the
\* cursor does not cover
Backlog(categories, tags, lastPostId, at) ==
  {p \in Range(published) :
     /\ p.date <= at
     /\ Matches(p, categories, tags, Null)
     /\ ~Skip(lastPostId, p)}

\* C14: the immediate check of startAutoPosting(c), when its fetch and its
\* deliveries succeed, delivers every post that was published before the call,
\* passes the chat's filters and has an id above the chat's cursor.
C14_StartCatchesUpBacklog ==
  \A t \in DoneChecks :
    LET f == tasks[t]
        prefs == getPreferences(cache, f.chat)
    IN (f.cont = "arm" /\ f.err = "none") =>
         \A p \in Backlog(prefs.categories, prefs.tags, f.lastPostId, f.began) :
           p.id \in Range(SentBy(f))

\* ---- the scheduler of several chats, one check per chat at a time --------
\* the checks of chat c in flight
ChecksOf(c) == {t \in ChecksInFlight : tasks[t].chat = c}

\* startAutoPosting(c) while no check of c is in flight
StartAutoPostingChat(c) ==
  /\ ChecksOf(c) = {}
  /\ StartAutoPosting(c)

\* a timer fires while no check of its chat is in flight
TimerFireChat(h) ==
  /\ h \in DOMAIN timers
  /\ ChecksOf(timers[h]) = {}
  /\ TimerFire(h)

NextIso ==
  \/ Publish
  \/ \E c \in Chats : StartAutoPostingChat(c)
  \/ StartAutoPostingForActiveChats
  \/ \E h \in 1..MaxTimers : TimerFireChat(h)
  \/ \E t \in 1..MaxTasks : ArmTimer(t)
  \/ \E t \in 1..MaxTasks : ArmTimerNext(t)
  \/ \E t \in 1..MaxTasks : CheckFetchOk(t)
  \/ \E t \in 1..MaxTasks : CheckFetchFail(t)
  \/ \E t \in 1..MaxTasks : CheckSendOk(t)
  \/ \E t \in 1..MaxTasks : CheckSendFail(t)
  \/ \E t \in 1..MaxTasks : CheckDelayDone(t)
  \/ \E t \in 1..MaxTasks : TickReturn(t)

SpecIso == Init /\ [][NextIso]_vars

\* the invocations of chat c in flight, in the order they began
FramesOf(ts, c) == SelectSeq(ts, LAMBDA f : f.chat = c)

\* C15: the chats are isolated.  A step changes the preferences, the timer
\* handle or the live timers of a chat only when it is a step of an invocation
\* of that chat, and no chat's start waits for another chat's check: a start
\* whose check is still in flight has no other chat's start queued behind it.
C15_ChatsIsolated ==
  /\ [][\A c \in Chats :
          (\/ getPreferences(cache', c) # getPreferences(cache, c)
           \/ (c \in DOMAIN intervals') # (c \in DOMAIN intervals)
           \/ {h \in DOMAIN timers' : timers'[h] = c} # LiveTimers(c))
            => FramesOf(tasks', c) # FramesOf(tasks, c)]_vars
  /\ [](\A t \in DOMAIN tasks : tasks[t].pc # "done" => tasks[t].rest = <<>>)

\* the step in which the fetch of check t is rejected
FetchFails(t) ==
  /\ t \in DOMAIN tasks /\ t \in DOMAIN tasks'
  /\ Len(tasks') = Len(tasks)
  /\ tasks[t].kind = "check" /\ tasks[t].pc = "fetch"
  /\ tasks'[t].pc = "done" /\ tasks'[t].err = "fetch"

\* C16: when the fetch of a check fails, the check delivers nothing, leaves
\* the chat's preferences (cursor, filters, lastCheck) as they were, ends
\* normally instead of raising, and leaves the timers armed, so that the next
\* timer fire runs the check again.
C16_FetchFailureLeavesState ==
  /\ [][\A t \in 1..MaxTasks :
          FetchFails(t) =>
            /\ cache' = cache
            /\ delivered' = delivered /\ advanced' = advanced
            /\ intervals' = intervals /\ timers' = timers
            /\ tasks'[t].posts = <<>>]_vars
  /\ [](\A t \in DoneChecks : tasks[t].err = "fetch" => SentBy(tasks[t]) = <<>>)

\* C16 witness: a timer-driven check has ended on a failed fetch, after an
\* earlier check had delivered a post, and the chat's timer is still armed.
C16_Witness ==
  \E t \in DoneChecks :
    /\ tasks[t].cont = "none" /\ tasks[t].err = "fetch"
    /\ LiveTimers(tasks[t].chat) # {}
    /\ Cursor(cache, tasks[t].chat) # Null
    /\ getPreferences(cache, tasks[t].chat).lastCheck < Now

\* the step in which check t has a delivery acknowledged
Delivers(t) ==
  /\ t \in DOMAIN tasks /\ t \in DOMAIN tasks'
  /\ Len(tasks') = Len(tasks)
  /\ tasks[t].kind = "check" /\ tasks[t].pc = "send" /\ tasks'[t].pc = "delay"

\* the step in which check t comes to its end
Ends(t) ==
  /\ t \in DOMAIN tasks /\ t \in DOMAIN tasks'
  /\ Len(tasks') = Len(tasks)
  /\ tasks[t].kind = "check" /\ tasks[t].pc # "done" /\ tasks'[t].pc = "done"

\* C17: the cursor updates of a chat are serialized.  When a manual post
\* delivered to the chat while a check of the chat was in flight, the check
\* does not deliver a post the manual post delivered meanwhile, and when the
\* check ends with no manual post left in flight the cursor is the largest id
\* that the check or those manual posts delivered.
C17_ManualAndTickSerialized ==
  /\ [][\A t \in 1..MaxTasks :
          Delivers(t) => tasks[t].posts[tasks[t].i].id \notin tasks[t].met]_vars
  /\ [][\A t \in 1..MaxTasks :
          (Ends(t) /\ tasks[t].met # {} /\ ManualInFlight = {})
            => Cursor(cache', tasks[t].chat)
                 = Max(tasks[t].met \cup Range(SentBy(tasks'[t])))]_vars

\* ---- the manual dispatcher alone -------------------------------------------
NextDispatch == Publish \/ NextManual

SpecDispatch == Init /\ [][NextDispatch]_vars

\* the step in which the delivery of manual post t is acknowledged
ManualDelivers(t) ==
  /\ t \in DOMAIN tasks
  /\ tasks[t].kind \in {"latest", "specific"} /\ tasks[t].pc = "send"
  /\ Len(tasks') = Len(tasks) - 1
  /\ Len(delivered'[tasks[t].chat]) = Len(delivered[tasks[t].chat]) + 1
  /\ delivered'[tasks[t].chat][Len(delivered'[tasks[t].chat])].by = "manual"

\* C18: postSpecific(c, id) delivers post id whatever the cursor is, and
\* leaves the cursor at the larger of its previous value and id.
C18_PostSpecificKeepsMaxCursor ==
  [][\A t \in 1..MaxTasks :
       (ManualDelivers(t) /\ tasks[t].kind = "specific") =>
         LET c == tasks[t].chat IN
         /\ delivered'[c][Len(delivered'[c])].id = tasks[t].arg
         /\ Cursor(cache', c) = Max({Cursor(cache, c), tasks[t].arg})]_vars

\* a /post_specific in flight whose id the source does not have
SpecificMissing(t) ==
  /\ t \in DOMAIN tasks
  /\ tasks[t].kind = "specific"
  /\ getPostById(published, tasks[t].arg) = <<>>

\* a step of invocation t: it moves on, or it ends
StepOf(t) ==
  \/ tasks' = Drop(tasks, t)
  \/ Len(tasks') = Len(tasks) /\ tasks'[t] # tasks[t]

\* C19: postSpecific(c, id) for an id the source does not have delivers
\* nothing and leaves the preferences of the chat and its timer as they were:
\* no step of the handler changes them, the handler never gets to a delivery,
\* and its fetch can only end in the reported failure.
C19_MissingPostChangesNothing ==
  /\ [][\A t \in 1..MaxTasks :
          (SpecificMissing(t) /\ StepOf(t)) =>
            /\ cache' = cache
            /\ delivered' = delivered /\ advanced' = advanced
            /\ intervals' = intervals /\ timers' = timers]_vars
  /\ [][\A t \in 1..MaxTasks :
          (SpecificMissing(t) /\ tasks[t].pc = "fetch" /\ StepOf(t))
            => tasks' = Drop(tasks, t)]_vars
  /\ [](\A t \in DOMAIN tasks :
          (tasks[t].kind = "specific" /\ tasks[t].pc = "send")
            => tasks[t].posts = getPostById(published, tasks[t].arg) /\ tasks[t].posts # <<>>)

\* C19 witness: a /post_specific for an id the source does not have is awaiting
\* its fetch for a chat that has a cursor and a live timer.
C19_Witness ==
  \E t \in DOMAIN tasks :
    /\ SpecificMissing(t) /\ tasks[t].pc = "fetch"
    /\ Cursor(cache, tasks[t].chat) # Null
    /\ LiveTimers(tasks[t].chat) # {}

\* the ids that manual posts have delivered to chat c
ManuallyDelivered(c) ==
  {delivered[c][x].id : x \in {y \in 1..Len(delivered[c]) : delivered[c][y].by = "manual"}}

\* C20: a post that a manual post has delivered to a chat is not delivered to
\* the chat again by a check that begins afterwards: when a check delivers a
\* post that was already delivered manually, that manual delivery happened
\* while the check was in flight.
C20_LaterTickSkipsManualPost ==
  [][\A t \in 1..MaxTasks :
       Delivers(t) =>
         LET x == tasks[t].posts[tasks[t].i].id IN
         x \in ManuallyDelivered(tasks[t].chat) => x \in tasks[t].met]_vars

\* C20 witness: a timer-driven check that began after a manual post had
\* delivered a post has ended, having delivered a newer post only.
C20_Witness ==
  \E t \in DoneChecks :
    LET f == tasks[t]
        d == delivered[f.chat]
    IN /\ f.cont = "none" /\ f.err = "none" /\ f.met = {}
       /\ Len(d) = 2
       /\ d[1].by = "manual" /\ d[2].by = "auto"
       /\ SentBy(f) = <<d[2].id>>
       /\ d[1].id # d[2].id

\* ---- the filter updates alone --------------------------------------------
\* the arrays passed to updateCategories / updateTags
FilterInputs ==
  {<<>>, <<"2", "2", "x", "0", "5">>, <<"5", "2">>, <<"-3", "1">>}

NextFilter ==
  \/ \E c \in Chats, list \in FilterInputs : SetCategories(c, list)
  \/ \E c \in Chats, list \in FilterInputs : SetTags(c, list)

SpecFilter == Init /\ [][NextFilter]_vars

\* the positive numeric identifiers present in an input
PositiveIds(list) ==
  {Number(list[x]) : x \in {y \in 1..Len(list) : Number(list[y]) # NaN /\ Number(list[y]) > 0}}

HasNoDuplicate(q) == \A x, y \in 1..Len(q) : x # y => q[x] # q[y]

\* C21: a stored filter is exactly the set of positive numeric identifiers of
\* the input it was set from: it has no duplicate and no non-positive value,
\* and the input <<"2","2","x","0","5">> is stored as {2, 5}.
C21_FilterIsPositiveIdSet ==
  \A c \in DOMAIN cache :
    \A q \in {cache[c].categories, cache[c].tags} :
      /\ HasNoDuplicate(q)
      /\ \A x \in 1..Len(q) : q[x] > 0
      /\ \E list \in FilterInputs : Range(q) = PositiveIds(list)

\* ---- the filter updates called with any argument -------------------------
\* the values a caller can pass as `categories` / `tags`: arrays, and values
\* that are no array (a string, null, a plain object)
FilterArguments ==
  {[type |-> "array", items |-> list] : list \in FilterInputs}
    \cup {[type |-> t, items |-> <<>>] : t \in {"string", "null", "object"}}

\* does `v.map` exist: only an array has it, on anything else the call
\* `categories.map(Number)` throws a TypeError
hasMap(v) == v.type = "array"

Returned(op, c) == [op |-> op, user |-> "none", chat |-> c, result |-> "returned"]

Threw(op, c, error) == [op |-> op, user |-> "none", chat |-> c, result |-> error]

\* updateCategories that takes a value without `map` for an empty selection
UpdateCategoriesCallLenient(c, v) ==
  /\ cache' = updateCategories(cache, c, v.items)
  /\ outcome' = Returned("updateCategories", c)
  /\ UNCHANGED <<svcVars, published, intervals, timers, tasks, delivered, advanced, sessions, sending>>

\* preferences.updateCategories(c, v): the argument of updatePreferences is
\* evaluated first, so a throw of v.map leaves the cache untouched
UpdateCategoriesCall(c, v) ==
  /\ IF hasMap(v)
       THEN /\ cache' = updateCategories(cache, c, v.items)
            /\ outcome' = Returned("updateCategories", c)
       ELSE /\ cache' = cache
            /\ outcome' = Threw("updateCategories", c, "TypeError")
  /\ UNCHANGED <<svcVars, published, intervals, timers, tasks, delivered, advanced, sessions, sending>>

\* preferences.updateTags(c, v)
UpdateTagsCall(c, v) ==
  /\ IF hasMap(v)
       THEN /\ cache' = updateTags(cache, c, v.items)
            /\ outcome' = Returned("updateTags", c)
       ELSE /\ cache' = cache
            /\ outcome' = Threw("updateTags", c, "TypeError")
  /\ UNCHANGED <<svcVars, published, intervals, timers, tasks, delivered, advanced, sessions, sending>>

NextBoundary ==
  \/ \E c \in Chats, v \in FilterArguments : UpdateCategoriesCall(c, v)
  \/ \E c \in Chats, v \in FilterArguments : UpdateTagsCall(c, v)

SpecBoundary == Init /\ [][NextBoundary]_vars

C23_LastCheckSetAtEndOfTick ==
  [][\A t \in 1..MaxTasks :
       (Ends(t) /\ tasks'[t].err # "fetch")
         => getPreferences(cache', tasks'[t].chat).lastCheck = Now]_vars

\* C24: toggleAutoPosting(c, enabled) sets autoPosting to the given value and
\* stamps lastCheck with the current time only when the chat goes from
\* disabled to enabled; disabling, and enabling a chat that is enabled already,
\* leave lastCheck as it was, and the cursor and the filters are never changed.
C24_ToggleStampsOnTransitionOnly ==
  [][\A c \in Chats, e \in BOOLEAN :
       ToggleAutoPostingCall(c, e) =>
         LET before == getPreferences(cache, c)
             after == getPreferences(cache', c)
         IN /\ after.autoPosting = e
            /\ after.lastCheck =
                 IF e /\ ~before.autoPosting THEN Now ELSE before.lastCheck
            /\ after.lastPostId = before.lastPostId
            /\ after.categories = before.categories
            /\ after.tags = before.tags]_vars

\* ---- every writer of one chat's preferences ------------------------------
\* the scheduler (start, stop, checks) and the manual dispatcher (/post_latest)
\* of one chat, interleaved with the commits of a selection in any chat
NextWrites ==
  \/ NextTick
  \/ \E c \in ActiveChats : PostLatestOne(c)
  \/ \E t \in 1..MaxTasks : ManualReplyOk(t)
  \/ \E t \in 1..MaxTasks : ManualReplyFail(t)
  \/ \E t \in 1..MaxTasks : LatestFetchOk(t)
  \/ \E t \in 1..MaxTasks : ManualFetchFail(t)
  \/ \E t \in 1..MaxTasks : ManualSendOk(t)
  \/ \E t \in 1..MaxTasks : ManualSendFail(t)
  \/ \E c \in Chats, list \in CategoryInputs : SetCategories(c, list)

SpecWrites == Init /\ [][NextWrites]_vars

\* the field sets the callers of updatePreferences pass: updateCategories,
\* updateTags, toggleAutoPosting, updateLastPostId, checkForNewPosts
WrittenFieldSets ==
  {{"categories"}, {"tags"}, {"autoPosting", "lastCheck"},
   {"lastPostId", "lastCheck"}, {"lastCheck"}}

\* the step is one write of the fields F of chat c and of nothing else
WritesOnly(c, F) ==
  /\ c \in DOMAIN cache'
  /\ \A f \in DOMAIN defaultPreferences \ F :
       cache'[c][f] = getPreferences(cache, c)[f]
  /\ \A d \in Chats \ {c} :
       /\ (d \in DOMAIN cache') = (d \in DOMAIN cache)
       /\ d \in DOMAIN cache => cache'[d] = cache[d]

\* C25: a write of preferences changes exactly the fields it names on its own
\* chat and leaves the other fields and every other chat's entry as they were;
\* under the interleavings of the scheduler, the dispatcher and the selection
\* commits, every step that changes the cache is one such write, so that no
\* write to one field undoes a write to another field.
C25_UpdateChangesNamedFieldsOnly ==
  [][cache' # cache =>
       \E c \in Chats, F \in WrittenFieldSets : WritesOnly(c, F)]_vars

\* a filter was committed and the cursor was advanced while the other writer's
\* value stayed: a chat is enabled, has a cursor and a non-empty filter and an
\* invocation in flight, and another chat has an entry too
C25_Witness ==
  \E c \in DOMAIN cache :
    /\ cache[c].categories # <<>>
    /\ cache[c].lastPostId # Null /\ cache[c].autoPosting
    /\ \E t \in DOMAIN tasks : tasks[t].chat = c
    /\ DOMAIN cache # {c}

\* ---- the preference store with reset -------------------------------------
\* a reset that only deletes the filters of the entry
ResetPreferencesCallFiltersOnly(c) ==
  /\ cache' = updatePreferences(cache, c, [categories |-> <<>>, tags |-> <<>>])
  /\ outcome' = Returned("resetPreferences", c)
  /\ UNCHANGED <<svcVars, published, intervals, timers, tasks, delivered, advanced, sessions, sending>>

\* preferences.resetPreferences(c)
ResetPreferencesCall(c) ==
  /\ cache' = resetPreferences(cache, c)
  /\ outcome' = Returned("resetPreferences", c)
  /\ UNCHANGED <<svcVars, published, intervals, timers, tasks, delivered, advanced, sessions, sending>>

\* preferences.toggleAutoPosting(c, enabled) returns
ToggleAutoPostingReturns(c, enabled) ==
  /\ cache' = toggleAutoPosting(cache, c, enabled, Now)
  /\ outcome' = Returned("toggleAutoPosting", c)
  /\ UNCHANGED <<svcVars, published, intervals, timers, tasks, delivered, advanced, sessions, sending>>

\* preferences.updateLastPostId(c, postId) returns
UpdateLastPostIdReturns(c, postId) ==
  /\ cache' = updateLastPostId(cache, c, postId, Now)
  /\ outcome' = Returned("updateLastPostId", c)
  /\ UNCHANGED <<svcVars, published, intervals, timers, tasks, delivered, advanced, sessions, sending>>

NextReset ==
  \/ Publish
  \/ \E c \in Chats : ResetPreferencesCall(c)
  \/ \E c \in Chats, e \in BOOLEAN : ToggleAutoPostingReturns(c, e)
  \/ \E c \in Chats, id \in 1..MaxPosts : UpdateLastPostIdReturns(c, id)
  \/ \E c \in Chats, v \in FilterArguments : UpdateCategoriesCall(c, v)

SpecReset == Init /\ [][NextReset]_vars

\* C26: resetPreferences(c) returns chat c to the defaults: afterwards
\* getPreferences(c) yields the default filters, autoPosting false, and a null
\* cursor and lastCheck; no other chat's entry is changed by it.
C26_ResetRestoresDefaults ==
  /\ [](outcome.op = "resetPreferences" =>
          LET prefs == getPreferences(cache, outcome.chat) IN
          /\ prefs.categories = <<>> /\ prefs.tags = <<>>
          /\ prefs.autoPosting = FALSE
          /\ prefs.lastPostId = Null /\ prefs.lastCheck = Null)
  /\ [][\A c \in Chats :
          ResetPreferencesCall(c) =>
            \A d \in Chats \ {c} :
              /\ (d \in DOMAIN cache') = (d \in DOMAIN cache)
              /\ d \in DOMAIN cache => cache'[d] = cache[d]]_vars

\* the last call reset a chat, at a time when posts exist, and the other chat
\* still has its enabled entry with a cursor and a filter
C26_Witness ==
  /\ outcome.op = "resetPreferences"
  /\ Now > 0
  /\ \E d \in DOMAIN cache \ {outcome.chat} :
       /\ cache[d].autoPosting /\ cache[d].lastPostId # Null
       /\ cache[d].categories # <<>>

\* ---- sendPost ------------------------------------------------------------
\* the posts handed to sendPost: with or without a featured image
SendPosts == [id : 1..MaxPosts, featuredImage : BOOLEAN]

\* one transport request: the method, the chat, the formatted text (the text
\* of post k is k), the parse mode and whether the transport acknowledged it
Attempt(method, call, mode, ok) ==
  [method |-> method, chat |-> call.chat, text |-> call.post.id,
   parse_mode |-> mode, ok |-> ok]

\* the call moves to pc after a transport request
Attempted(k, attempt, pc) ==
  sending' = [sending EXCEPT ![k] =
    [@ EXCEPT !.attempts = Append(@, attempt), !.pc = pc]]

\* sendPost(c, post) up to its first await: the photo when the post has an
\* image, the text otherwise
SendPost(c, post) ==
  /\ Len(sending) < MaxTasks
  /\ sending' = Append(sending,
       [chat |-> c, post |-> post, attempts |-> <<>>,
        pc |-> IF post.featuredImage THEN "photo" ELSE "text"])
  /\ UNCHANGED <<svcVars, published, cache, intervals, timers, tasks, delivered, advanced, sessions, outcome>>

\* telegram.sendPhoto resolves: sendPost returns the message
SendPhotoOk(k) ==
  /\ k \in DOMAIN sending /\ sending[k].pc = "photo"
  /\ Attempted(k, Attempt("sendPhoto", sending[k], "HTML", TRUE), "returned")
  /\ UNCHANGED <<svcVars, published, cache, intervals, timers, tasks, delivered, advanced, sessions, outcome>>

\* a sendPost that gives up when the photo is refused
SendPhotoFailNoFallback(k) ==
  /\ k \in DOMAIN sending /\ sending[k].pc = "photo"
  /\ Attempted(k, Attempt("sendPhoto", sending[k], "HTML", FALSE), "thrown")
  /\ UNCHANGED <<svcVars, published, cache, intervals, timers, tasks, delivered, advanced, sessions, outcome>>

\* telegram.sendPhoto rejects: the catch goes on to the text-only fallback
SendPhotoFail(k) ==
  /\ k \in DOMAIN sending /\ sending[k].pc = "photo"
  /\ Attempted(k, Attempt("sendPhoto", sending[k], "HTML", FALSE), "fallback")
  /\ UNCHANGED <<svcVars, published, cache, intervals, timers, tasks, delivered, advanced, sessions, outcome>>

\* telegram.sendMessage of a post without image resolves
SendMessageOk(k) ==
  /\ k \in DOMAIN sending /\ sending[k].pc = "text"
  /\ Attempted(k, Attempt("sendMessage", sending[k], "Markdown", TRUE), "returned")
  /\ UNCHANGED <<svcVars, published, cache, intervals, timers, tasks, delivered, advanced, sessions, outcome>>

\* telegram.sendMessage of a post without image rejects: the catch rethrows
SendMessageFail(k) ==
  /\ k \in DOMAIN sending /\ sending[k].pc = "text"
  /\ Attempted(k, Attempt("sendMessage", sending[k], "Markdown", FALSE), "thrown")
  /\ UNCHANGED <<svcVars, published, cache, intervals, timers, tasks, delivered, advanced, sessions, outcome>>

\* the fallback sendMessage resolves
SendFallbackOk(k) ==
  /\ k \in DOMAIN sending /\ sending[k].pc = "fallback"
  /\ Attempted(k, Attempt("sendMessage", sending[k], "HTML", TRUE), "returned")
  /\ UNCHANGED <<svcVars, published, cache, intervals, timers, tasks, delivered, advanced, sessions, outcome>>

\* the fallback sendMessage rejects: fallbackError is thrown
SendFallbackFail(k) ==
  /\ k \in DOMAIN sending /\ sending[k].pc = "fallback"
  /\ Attempted(k, Attempt("sendMessage", sending[k], "HTML", FALSE), "thrown")
  /\ UNCHANGED <<svcVars, published, cache, intervals, timers, tasks, delivered, advanced, sessions, outcome>>

\* the caller takes the settled promise
SendPostSettled(k) ==
  /\ k \in DOMAIN sending /\ sending[k].pc \in {"returned", "thrown"}
  /\ sending' = Drop(sending, k)
  /\ UNCHANGED <<svcVars, published, cache, intervals, timers, tasks, delivered, advanced, sessions, outcome>>

NextSend ==
  \/ \E c \in Chats, post \in SendPosts : SendPost(c, post)
  \/ \E k \in 1..MaxTasks : SendPhotoOk(k)
  \/ \E k \in 1..MaxTasks : SendPhotoFail(k)
  \/ \E k \in 1..MaxTasks : SendMessageOk(k)
  \/ \E k \in 1..MaxTasks : SendMessageFail(k)
  \/ \E k \in 1..MaxTasks : SendFallbackOk(k)
  \/ \E k \in 1..MaxTasks : SendFallbackFail(k)
  \/ \E k \in 1..MaxTasks : SendPostSettled(k)

SpecSend == Init /\ [][NextSend]_vars

\* C27: sendPost of a post with an image tries the photo first and, when that
\* fails, sends the same text as a plain message; the call succeeds when
\* either request is acknowledged and fails only when both failed.  For a post
\* without image the one text request is not retried.  A call makes at most
\* two transport requests.
C27_SendPostFallsBackOnce ==
  \A k \in DOMAIN sending :
    LET call == sending[k]
        a == call.attempts
    IN /\ Len(a) <= 2
       /\ \A x \in 1..Len(a) : a[x].chat = call.chat /\ a[x].text = call.post.id
       /\ call.post.featuredImage =>
            /\ Len(a) >= 1 => a[1].method = "sendPhoto"
            /\ Len(a) = 2 => ~a[1].ok /\ a[2].method = "sendMessage"
            /\ call.pc = "thrown" => Len(a) = 2
       /\ ~call.post.featuredImage =>
            /\ Len(a) <= 1
            /\ \A x \in 1..Len(a) : a[x].method = "sendMessage"
            /\ call.pc = "thrown" => Len(a) = 1
       /\ call.pc = "returned" <=> (Len(a) >= 1 /\ a[Len(a)].ok)
       /\ call.pc = "thrown" => \A x \in 1..Len(a) : ~a[x].ok
       /\ call.pc \in {"photo", "text"} <=> a = <<>>
       /\ call.pc = "fallback" => Len(a) = 1

\* one call has succeeded through the fallback after a refused photo while
\* another, for a post without image, has failed on its only request
C27_Witness ==
  \E k, m \in DOMAIN sending :
    /\ sending[k].post.featuredImage /\ sending[k].pc = "returned"
    /\ Len(sending[k].attempts) = 2
    /\ ~sending[m].post.featuredImage /\ sending[m].pc = "thrown"

\* ---- selection sessions --------------------------------------------------
Users == {"u1", "u2"}

\* config.telegram.adminUsers
adminUsers == {"u1"}

isAdmin(u) == u \in adminUsers

\* the ids of the items wordpress.getCategories() / getTags() list
MenuCategoryIds == {1, 2}
MenuTagIds == {1}

\* `${ctx.from.id}:${ctx.chat.id}` with the user taken for the chat
getSessionKeyByUser(u, c) == u \o ":" \o u

\* `${ctx.from.id}:${ctx.chat.id}`
getSessionKey(u, c) == u \o ":" \o c

\* str.charAt(0).toUpperCase() + str.slice(1)
capitalize(str) ==
  CASE str = "categories" -> "Categories" [] str = "tags" -> "Tags"
    [] str = "category" -> "Category" [] str = "tag" -> "Tag"

\* `selected${this.capitalize(type)}`
sessionKey(type) == "selected" \o capitalize(type)

\* the session object of a key the store does not hold: the empty object of
\* the session library, or the default of the constructor's middleware
NewSessionData ==
  {[x \in {} |-> <<>>], [x \in {"selectedCategories", "selectedTags"} |-> <<>>]}

\* ctx.session as the middleware hands it to a handler.  `data` is the session
\* object; `pending` is history: per filter type, the selection the session
\* was begun with, with the toggles pressed since applied
ctxSession(u, c) ==
  IF getSessionKey(u, c) \in DOMAIN sessions
  THEN {sessions[getSessionKey(u, c)]}
  ELSE {[data |-> d, pending |-> [x \in {} |-> <<>>]] : d \in NewSessionData}

\* the session store after the handler of (u, c) ran on session object s
saveSession(u, c, s) == Put(sessions, getSessionKey(u, c), s)

\* indexOf / push / splice(index, 1)
ToggleId(arr, id) ==
  IF id \in Range(arr)
  THEN Drop(arr, Min({x \in 1..Len(arr) : arr[x] = id}))
  ELSE Append(arr, id)

\* the history of a toggle of `id` for the filter `type`
TogglePending(pending, type, id) ==
  IF type \in DOMAIN pending
  THEN Put(pending, type, ToggleId(pending[type], id)) ELSE pending

\* [...new Set(ids.map(Number).filter(Boolean))] of an array of numbers
NormalizeIds(ids) == Uniq(SelectSeq(ids, Boolean))

Handled(op, u, c, result) == [op |-> op, user |-> u, chat |-> c, result |-> result]

\* /set_categories, /set_tags: handleSetCategories / handleSetTags pass the
\* admin check and showSelectionMenu stores the chat's current filter as the
\* selection
ShowSelectionMenu(u, c, type) ==
  /\ isAdmin(u)
  /\ \E s \in ctxSession(u, c) :
       LET current == getPreferences(cache, c)[type] IN
       sessions' = saveSession(u, c,
         [data |-> Put(s.data, sessionKey(type), current),
          pending |-> Put(s.pending, type, current)])
  /\ cache' = getPreferencesCache(cache, c)
  /\ outcome' = Handled("set_" \o type, u, c, "menu")
  /\ UNCHANGED <<svcVars, published, intervals, timers, tasks, delivered, advanced, sending>>

\* the filter a toggle button of `type` belongs to
FilterOf(type) == IF type \in {"category", "categories"} THEN "categories" ELSE "tags"

\* the cache after the selection `ids` is committed as the filter `type`
commitSelection(ch, c, type, ids) ==
  IF type = "categories"
  THEN updatePreferences(ch, c, [categories |-> NormalizeIds(ids)])
  ELSE updatePreferences(ch, c, [tags |-> NormalizeIds(ids)])

\* ---- the handlers of setupActionHandlers that call the handle* methods ---
\* toggle_category_<id> / toggle_tag_<id>: handleToggleSelection(ctx, type)
\* with type "category" or "tag"
HandleToggleSelection(u, c, type, id) ==
  /\ \E s \in ctxSession(u, c) :
       LET key == sessionKey(type)
           arr == IF key \in DOMAIN s.data THEN s.data[key] ELSE <<>>
       IN sessions' = saveSession(u, c,
            [data |-> Put(s.data, key, ToggleId(arr, id)),
             pending |-> TogglePending(s.pending, FilterOf(type), id)])
  /\ outcome' = Handled("toggle_" \o type, u, c, "answered")
  /\ UNCHANGED <<svcVars, published, cache, intervals, timers, tasks, delivered, advanced, sending>>

\* save_categories / save_tags: handleSaveSelection(ctx, type) with type
\* "categories" or "tags".  After the commit and the message edit the handler
\* calls ctx.answerCqQuery, which does not exist, and throws
HandleSaveSelection(u, c, type) ==
  /\ \E s \in ctxSession(u, c) :
       IF sessionKey(type) \in DOMAIN s.data
       THEN /\ cache' = commitSelection(cache, c, type, s.data[sessionKey(type)])
            /\ sessions' = saveSession(u, c,
                 [data |-> Del(s.data, sessionKey(type)),
                  pending |-> Del(s.pending, type)])
            /\ outcome' = Handled("save_" \o type, u, c, "TypeError")
       ELSE /\ cache' = cache
            /\ sessions' = saveSession(u, c, s)
            /\ outcome' = Handled("save_" \o type, u, c, "No changes to save")
  /\ UNCHANGED <<svcVars, published, intervals, timers, tasks, delivered, advanced, sending>>

\* cancel_categories / cancel_tags: the menu message is deleted and the press
\* answered; the session object is not touched
CancelSelection(u, c, type) ==
  /\ \E s \in ctxSession(u, c) :
       sessions' = saveSession(u, c, [s EXCEPT !.pending = Del(@, type)])
  /\ outcome' = Handled("cancel_" \o type, u, c, "cancelled")
  /\ UNCHANGED <<svcVars, published, cache, intervals, timers, tasks, delivered, advanced, sending>>

\* the admin of one chat uses the menus
NextSelection ==
  \/ \E u \in adminUsers, c \in ActiveChats, type \in {"categories", "tags"} :
       ShowSelectionMenu(u, c, type)
  \/ \E u \in adminUsers, c \in ActiveChats, id \in MenuCategoryIds :
       HandleToggleSelection(u, c, "category", id)
  \/ \E u \in adminUsers, c \in ActiveChats, id \in MenuTagIds :
       HandleToggleSelection(u, c, "tag", id)
  \/ \E u \in adminUsers, c \in ActiveChats, type \in {"categories", "tags"} :
       HandleSaveSelection(u, c, type)
  \/ \E u \in adminUsers, c \in ActiveChats, type \in {"categories", "tags"} :
       CancelSelection(u, c, type)

SpecSelection == Init /\ [][NextSelection]_vars

\* the last handler that ran was `op` of user u in chat c
LastHandled(op, u, c) == outcome.op = op /\ outcome.user = u /\ outcome.chat = c

\* C28: saving a selection session commits the pending selection (the
\* selection the session was begun with, with the toggles since applied) as
\* the chat's category or tag filter and clears the session; a second save
\* right after it, with no new session, changes nothing.
C28_SaveCommitsPendingSelection ==
  [][\A u \in Users, c \in Chats, type \in {"categories", "tags"} :
       HandleSaveSelection(u, c, type) =>
         LET k == getSessionKey(u, c)
             begun == k \in DOMAIN sessions /\ type \in DOMAIN sessions[k].pending
         IN /\ begun =>
                 /\ getPreferences(cache', c)[type] = sessions[k].pending[type]
                 /\ type \notin DOMAIN sessions'[k].pending
                 /\ sessionKey(type) \notin DOMAIN sessions'[k].data
            /\ LastHandled("save_" \o type, u, c) => cache' = cache]_vars

\* C29: cancelling a selection session discards its pending selection and
\* leaves the stored filters as they were; a save pressed after the cancel,
\* with no new session begun, finds nothing to save and commits nothing.
C29_CancelDiscardsSelection ==
  /\ [](\A u \in Users, c \in Chats, type \in {"categories", "tags"} :
          LastHandled("cancel_" \o type, u, c) =>
            sessionKey(type) \notin DOMAIN sessions[getSessionKey(u, c)].data)
  /\ [][\A u \in Users, c \in Chats, type \in {"categories", "tags"} :
          /\ CancelSelection(u, c, type) => cache' = cache
          /\ (LastHandled("cancel_" \o type, u, c) /\ HandleSaveSelection(u, c, type))
               => (cache' = cache /\ outcome'.result = "No changes to save")]_vars

\* ---- the handlers written inline in setupActionHandlers ------------------
\* the re-rendering of the menu after an inline toggle: the menu is drawn from
\* the session, which it leaves as it is
showSelectionMenuAgain(s) == s

\* toggle_category_<id>: ctx.session is an object already, so a session
\* without selectedCategories makes indexOf throw; the catch answers the press
ToggleCategory(u, c, id) ==
  /\ \E s \in ctxSession(u, c) :
       IF "selectedCategories" \in DOMAIN s.data
       THEN /\ sessions' = saveSession(u, c, showSelectionMenuAgain(
                 [data |-> Put(s.data, "selectedCategories",
                               ToggleId(s.data["selectedCategories"], id)),
                  pending |-> TogglePending(s.pending, "categories", id)]))
            /\ outcome' = Handled("toggle_category", u, c, "answered")
       ELSE /\ sessions' = saveSession(u, c, s)
            /\ outcome' = Handled("toggle_category", u, c, "Error updating selection")
  /\ UNCHANGED <<svcVars, published, cache, intervals, timers, tasks, delivered, advanced, sending>>

\* save_categories: a selection in the session (an array is truthy, the empty
\* one too) is committed to the chat of the press and deleted
SaveCategories(u, c) ==
  /\ \E s \in ctxSession(u, c) :
       IF "selectedCategories" \in DOMAIN s.data
       THEN /\ cache' = commitSelection(cache, c, "categories",
                                        s.data["selectedCategories"])
            /\ sessions' = saveSession(u, c,
                 [data |-> Del(s.data, "selectedCategories"),
                  pending |-> Del(s.pending, "categories")])
            /\ outcome' = Handled("save_categories", u, c, "Categories saved")
       ELSE /\ cache' = cache
            /\ sessions' = saveSession(u, c, s)
            /\ outcome' = Handled("save_categories", u, c, "No changes to save")
  /\ UNCHANGED <<svcVars, published, intervals, timers, tasks, delivered, advanced, sending>>

\* cancel_categories: the selection is deleted from the session
CancelCategories(u, c) ==
  /\ \E s \in ctxSession(u, c) :
       sessions' = saveSession(u, c,
         [data |-> Del(s.data, "selectedCategories"),
          pending |-> Del(s.pending, "categories")])
  /\ outcome' = Handled("cancel_categories", u, c, "cancelled")
  /\ UNCHANGED <<svcVars, published, cache, intervals, timers, tasks, delivered, advanced, sending>>

\* the (user, chat) pairs whose buttons are pressed
Visitors == {<<"u1", "A">>, <<"u1", "B">>, <<"u2", "A">>}

NextInline ==
  \/ \E v \in Visitors : ShowSelectionMenu(v[1], v[2], "categories")
  \/ \E v \in Visitors, id \in MenuCategoryIds : ToggleCategory(v[1], v[2], id)
  \/ \E v \in Visitors : SaveCategories(v[1], v[2])
  \/ \E v \in Visitors : CancelCategories(v[1], v[2])

SpecInline == Init /\ [][NextInline]_vars

\* the session of the pair (u, c) in the store ss, empty while none is stored
SelectionIn(ss, u, c) ==
  IF getSessionKey(u, c) \in DOMAIN ss
  THEN ss[getSessionKey(u, c)]
  ELSE [data |-> [x \in {} |-> <<>>], pending |-> [x \in {} |-> <<>>]]

\* C30: selection sessions are keyed by the (user, chat) pair.  A begin,
\* toggle, save or cancel of one pair never changes the session (the pending
\* selection included) of a pair with another user or another chat, and a save
\* writes only to the preferences entry of its own chat.
C30_SessionsKeyedByUserAndChat ==
  [][/\ \A u \in Users, c \in Chats :
          (u # outcome'.user \/ c # outcome'.chat)
            => SelectionIn(sessions', u, c) = SelectionIn(sessions, u, c)
     /\ \A d \in Chats \ {outcome'.chat} :
          /\ (d \in DOMAIN cache') = (d \in DOMAIN cache)
          /\ d \in DOMAIN cache => cache'[d] = cache[d]]_vars

\* u1 has just saved {1} for chat A while u1's session in chat B holds {2},
\* u2's session in chat A holds {2, 1} and chat B's stored filter is empty
C30_Witness ==
  /\ outcome = Handled("save_categories", "u1", "A", "Categories saved")
  /\ "A" \in DOMAIN cache /\ cache["A"].categories = <<1>>
  /\ "B" \in DOMAIN cache /\ cache["B"].categories = <<>>
  /\ "selectedCategories" \in DOMAIN SelectionIn(sessions, "u1", "B").data
  /\ SelectionIn(sessions, "u1", "B").data["selectedCategories"] = <<2>>
  /\ "selectedCategories" \in DOMAIN SelectionIn(sessions, "u2", "A").data
  /\ SelectionIn(sessions, "u2", "A").data["selectedCategories"] = <<2, 1>>

\* ---- process shutdown (bot.js) --------------------------------------------
\* process.on('SIGINT', ...) and process.on('SIGTERM', ...)
Signals == {"SIGINT", "SIGTERM"}

\* the shutdown handler if the awaited call resolved and cancelled nothing:
\* the process stays up until the server closes or the 5 s timeout passes
ShutdownKeepsTimers(signal) ==
  /\ process.state = "running"
  /\ process' = [process EXCEPT !.state = "closing", !.signal = signal,
                                !.killed = [timers |-> {}, tasks |-> 0]]
  /\ UNCHANGED <<uiVars, scheduler, metrics, published, cache, intervals,
                 timers, tasks, delivered, advanced>>

\* shutdown(signal): `await botService.shutdown()` calls a method that no
\* version of the BotService class defines, so the call throws a TypeError
\* inside the try; the catch logs it and calls process.exit(1) at once.  The
\* interval timers, the invocations in flight and the in-memory preferences
\* end with the process; the `killed` field records what was live then.
Shutdown(signal) ==
  /\ process.state = "running"
  /\ process' = [state |-> "exited", signal |-> signal, code |-> 1,
                 killed |-> [timers |-> DOMAIN timers, tasks |-> Len(tasks)]]
  /\ timers' = <<>>
  /\ intervals' = <<>>
  /\ tasks' = <<>>
  /\ cache' = <<>>
  /\ UNCHANGED <<uiVars, scheduler, metrics, published, delivered, advanced>>

\* the event loop serves the scheduler for as long as the process is up
\* (starts one after the other, one timer-driven check at a time)
Up == process.state # "exited"

NextShutdown ==
  \/ \E signal \in Signals : Shutdown(signal)
  \/ Up /\ Publish
  \/ Up /\ \E c \in ActiveChats : StartAutoPostingSeq(c)
  \/ Up /\ \E c \in ActiveChats : StopAutoPosting(c)
  \/ Up /\ \E h \in 1..MaxTimers : TimerFireOne(h)
  \/ Up /\ \E t \in 1..MaxTasks : ArmTimer(t)
  \/ Up /\ \E t \in 1..MaxTasks : CheckFetchOk(t)
  \/ Up /\ \E t \in 1..MaxTasks : CheckFetchFail(t)
  \/ Up /\ \E t \in 1..MaxTasks : CheckSendOk(t)
  \/ Up /\ \E t \in 1..MaxTasks : CheckSendFail(t)
  \/ Up /\ \E t \in 1..MaxTasks : CheckDelayDone(t)
  \/ Up /\ \E t \in 1..MaxTasks : TickReturn(t)

SpecShutdown == Init /\ [][NextShutdown]_vars

StartsInProgress(c) == {t \in PendingArms : tasks[t].chat = c}

\* C34: while no start or stop of a destination is in progress, the
\* destination has a live timer exactly when its autoPosting flag is true
C34_TimerIffEnabled ==
  \A c \in Chats :
    StartsInProgress(c) = {}
      => ((LiveTimers(c) # {}) <=> getPreferences(cache, c).autoPosting)

\* ---- overlap of checks -----------------------------------------------------
\* the checks of chat c that await a fetch, a delivery or the delay
Checking(c) ==
  {t \in ChecksInFlight : tasks[t].chat = c /\ tasks[t].pc # "done"}

\* C35: at most one check is in flight for a destination at any time
C35_OneCheckInFlight ==
  \A c \in Chats : Cardinality(Checking(c)) <= 1

\* ---- toggles ---------------------------------------------------------------
\* the pending selection of filter `filter` in session s, as a set
PendingSet(s, filter) == Range(s.data[sessionKey(filter)])

\* C36: a toggle on a begun selection session flips exactly one id of the
\* pending selection (the one that showSelectionMenu stored and save commits),
\* leaves the other ids alone and does not change the preference store
C36_ToggleFlipsOneId ==
  [][\A type \in {"category", "tag"} :
       LET before == SelectionIn(sessions, outcome'.user, outcome'.chat)
           after == SelectionIn(sessions', outcome'.user, outcome'.chat)
           key == sessionKey(FilterOf(type))
       IN (/\ outcome'.op = "toggle_" \o type
           /\ outcome'.result = "answered"
           /\ key \in DOMAIN before.data)
            => /\ key \in DOMAIN after.data
               /\ LET b == PendingSet(before, FilterOf(type))
                      a == PendingSet(after, FilterOf(type))
                  IN Cardinality((b \ a) \cup (a \ b)) = 1
               /\ cache' = cache]_vars

\* ---- one-shot scheduled posts (SchedulerService) --------------------------
\* the number of jobs created in a run, reschedules included
MaxJobs == 3

\* the posts handed to schedulePost
ScheduledPostIds == {1, 2}

\* what the time argument of schedulePost turns out to be
ScheduleTimes == {"invalid", "past", "future"}

\* `post_${post.id}_${chatId}_${Date.now()}`, held as its '_'-separated parts
JobId(postId, chatId, now) == <<"post", ToString(postId), chatId, ToString(now)>>

\* jobId.endsWith(`_${chatId}`): the last part of the id is the chat id
endsWith(jobId, chatId) == jobId[Len(jobId)] = chatId

\* the job ids a caller may pass: every id handed out so far and a foreign one
KnownJobIds == DOMAIN scheduler.handles \cup {JobId(1, "A", 0)}

\* the call returned `value` (success) or an error result (failure)
Result(op, c, success, value) ==
  [op |-> op, chat |-> c, success |-> success, value |-> value]

\* nodeSchedule.scheduleJob(jobId, date, callback) for a date ahead, and
\* this.jobs.set(jobId, {job, chatId, postId, ...}); `root` names the
\* schedulePost call of the user that the job descends from
Register(sch, jobId, chatId, postId, root) ==
  [sch EXCEPT
     !.handles = Put(sch.handles, jobId,
                     [chatId |-> chatId, postId |-> postId,
                      state |-> "armed", root |-> root]),
     !.jobs = Put(sch.jobs, jobId, [chatId |-> chatId, postId |-> postId]),
     !.clock = sch.clock + 1]

\* schedulePost(chatId, post, scheduleTime): an unparseable time throws
\* 'Invalid schedule time', a past date makes scheduleJob return null; a date
\* ahead arms the job and registers it, and then the notification is awaited:
\* when it throws, the catch returns a failure for a job that stays scheduled
SchedulePost(c, p, time, notified) ==
  /\ scheduler.clock <= MaxJobs
  /\ LET jobId == JobId(p, c, scheduler.clock) IN
     IF time = "future"
     THEN scheduler' = [Register(scheduler, jobId, c, p, jobId) EXCEPT
                          !.returned = Result("schedulePost", c, notified, {jobId})]
     ELSE scheduler' = [scheduler EXCEPT
                          !.returned = Result("schedulePost", c, FALSE, {})]
  /\ UNCHANGED <<uiVars, process, metrics, published, cache, intervals, timers,
                 tasks, delivered, advanced>>

\* the date of an armed job arrives: its callback starts and awaits sendPost
FireJob(j) ==
  /\ j \in DOMAIN scheduler.handles
  /\ scheduler.handles[j].state = "armed"
  /\ scheduler' = [scheduler EXCEPT !.handles[j].state = "sending"]
  /\ UNCHANGED <<uiVars, process, metrics, published, cache, intervals, timers,
                 tasks, delivered, advanced>>

\* sendPost resolves: this.jobs.delete(jobId)
JobSendOk(j) ==
  /\ j \in DOMAIN scheduler.handles
  /\ scheduler.handles[j].state = "sending"
  /\ scheduler' = [scheduler EXCEPT
       !.handles[j].state = "done",
       !.sent = Append(scheduler.sent,
                       [chatId |-> scheduler.handles[j].chatId,
                        postId |-> scheduler.handles[j].postId, job |-> j]),
       !.jobs = Del(scheduler.jobs, j)]
  /\ UNCHANGED <<uiVars, process, metrics, published, cache, intervals, timers,
                 tasks, delivered, advanced>>

\* sendPost rejects: the catch calls schedulePost(chatId, post, now + 5 min,
\* {notify: false}), which arms and registers a job under a new id; the
\* entry of the job that failed stays in this.jobs
JobSendFail(j) ==
  /\ j \in DOMAIN scheduler.handles
  /\ scheduler.handles[j].state = "sending"
  /\ scheduler.clock <= MaxJobs
  /\ LET h == scheduler.handles[j]
         failed == [scheduler EXCEPT !.handles[j].state = "failed"]
     IN scheduler' = Register(failed, JobId(h.postId, h.chatId, scheduler.clock),
                              h.chatId, h.postId, h.root)
  /\ UNCHANGED <<uiVars, process, metrics, published, cache, intervals, timers,
                 tasks, delivered, advanced>>

\* cancelScheduledPost(jobId): a registered id has its Job cancelled (which
\* stops an invocation still ahead, not a callback already running) and its
\* entry deleted; any other id gets the failure result
CancelScheduledPost(j) ==
  /\ IF j \in DOMAIN scheduler.jobs
     THEN scheduler' = [scheduler EXCEPT
            !.handles[j].state = IF @ = "armed" THEN "cancelled" ELSE @,
            !.jobs = Del(scheduler.jobs, j),
            !.cancelled = @ \cup {j},
            !.returned = Result("cancelScheduledPost", scheduler.jobs[j].chatId,
                                TRUE, {j})]
     ELSE scheduler' = [scheduler EXCEPT
            !.returned = Result("cancelScheduledPost", "none", FALSE, {j})]
  /\ UNCHANGED <<uiVars, process, metrics, published, cache, intervals, timers,
                 tasks, delivered, advanced>>

\* the job ids listScheduledPosts(chatId) reports: the entries of the chat
\* whose id ends with `_${chatId}`.  (The map step then calls
\* job.nextInvocation() on the registry entry, which has no such method.)
listScheduledPosts(jobs, chatId) ==
  LET ofChat == {j \in DOMAIN jobs : jobs[j].chatId = chatId}
  IN {j \in ofChat : endsWith(j, chatId)}

\* /scheduled_posts: the list is computed and shown
ListScheduledPosts(c) ==
  /\ scheduler' = [scheduler EXCEPT
       !.returned = Result("listScheduledPosts", c, TRUE,
                           listScheduledPosts(scheduler.jobs, c))]
  /\ UNCHANGED <<uiVars, process, metrics, published, cache, intervals, timers,
                 tasks, delivered, advanced>>

NextJobs ==
  \/ \E c \in Chats, p \in ScheduledPostIds, time \in ScheduleTimes,
        notified \in BOOLEAN : SchedulePost(c, p, time, notified)
  \/ \E j \in KnownJobIds : FireJob(j)
  \/ \E j \in KnownJobIds : JobSendOk(j)
  \/ \E j \in KnownJobIds : JobSendFail(j)
  \/ \E j \in KnownJobIds : CancelScheduledPost(j)
  \/ \E c \in Chats : ListScheduledPosts(c)

SpecJobs == Init /\ [][NextJobs]_vars

\* the jobs of chat c that have neither sent their post nor been cancelled
PendingJobs(c) ==
  {j \in DOMAIN scheduler.handles :
     /\ scheduler.handles[j].chatId = c
     /\ scheduler.handles[j].state \in {"armed", "sending"}}

\* C33: listScheduledPosts(chatId) reports exactly the pending jobs of chatId
C33_ListReportsPendingJobs ==
  [][(/\ scheduler'.returned.op = "listScheduledPosts"
      /\ scheduler'.handles = scheduler.handles
      /\ scheduler'.jobs = scheduler.jobs)
       => scheduler'.returned.value = PendingJobs(scheduler'.returned.chat)]_vars

\* the schedulePost call of the user that job j descends from
RootOf(j) == scheduler.handles[j].root

\* the step is a send acknowledged for a job
IsJobSend == Len(scheduler'.sent) > Len(scheduler.sent)

\* the step is a cancelScheduledPost that returned success / failure
IsCancelSuccess ==
  /\ scheduler'.jobs # scheduler.jobs
  /\ scheduler'.sent = scheduler.sent
  /\ scheduler'.clock = scheduler.clock

IsCancelFailure ==
  /\ scheduler'.returned # scheduler.returned
  /\ scheduler'.returned.op = "cancelScheduledPost"
  /\ ~scheduler'.returned.success

\* C37: once cancelScheduledPost has returned success for a job, no send of
\* that job's post happens, also not by a job it was rescheduled as; a cancel
\* succeeds only for a job that is registered and has neither been cancelled
\* nor sent its post, and a cancel that fails changes nothing
C37_CancelledJobNeverSends ==
  [][/\ IsJobSend =>
          \A k \in scheduler.cancelled :
            RootOf(k) # RootOf(scheduler'.sent[Len(scheduler'.sent)].job)
     /\ IsCancelSuccess =>
          \A j \in DOMAIN scheduler.jobs \ DOMAIN scheduler'.jobs :
            scheduler.handles[j].state \notin {"cancelled", "done"}
     /\ IsCancelFailure =>
          /\ scheduler'.jobs = scheduler.jobs
          /\ scheduler'.handles = scheduler.handles
          /\ scheduler'.sent = scheduler.sent
          /\ \A j \in scheduler'.returned.value : j \notin DOMAIN scheduler.jobs]_vars

\* C38: a post is sent at most once per scheduled job, however often it was
\* rescheduled, and this.jobs holds exactly the jobs that are still pending
C38_RegistryHoldsPendingJobs ==
  /\ \A i, k \in DOMAIN scheduler.sent :
       i # k => RootOf(scheduler.sent[i].job) # RootOf(scheduler.sent[k].job)
  /\ DOMAIN scheduler.jobs = UNION {PendingJobs(c) : c \in Chats}

\* ---- the metrics service ---------------------------------------------------
\* the number of tracking calls made in a run
MaxCalls == 3

\* the one command the handlers track
Commands == {"start"}

\* the metrics a previous run left on disk: user u1 with one command
SavedMetrics ==
  [totalUsers |-> 1,
   userEngagement |-> [u \in {"u1"} |-> [commandsUsed |-> 1]],
   commandUsage |-> [k \in Commands |-> 1]]

\* the metrics file the process finds: none, or that of a previous run
MetricsFiles == {NoFile, [exists |-> TRUE, data |-> SavedMetrics]}

\* new MetricsService(): this.metrics gets its defaults and initialize()
\* starts, which awaits mkdir and then loadMetrics
MetricsServiceNew(f) ==
  /\ metrics.load = "none"
  /\ metrics' = [NoMetrics EXCEPT !.file = f, !.load = "reading"]
  /\ UNCHANGED <<uiVars, process, scheduler, published, cache, intervals,
                 timers, tasks, delivered, advanced>>

\* fs.readFile settles: with the contents the file has at that moment, or
\* with ENOENT, which loadMetrics logs and swallows
ReadFile ==
  /\ metrics.load = "reading"
  /\ metrics' = IF metrics.file.exists
                THEN [metrics EXCEPT !.load = "read", !.data = metrics.file.data]
                ELSE [metrics EXCEPT !.load = "done"]
  /\ UNCHANGED <<uiVars, process, scheduler, published, cache, intervals,
                 timers, tasks, delivered, advanced>>

\* loadMetrics resumes: this.metrics = JSON.parse(data)
LoadMetrics ==
  /\ metrics.load = "read"
  /\ metrics' = [metrics EXCEPT !.load = "done", !.metrics = metrics.data]
  /\ UNCHANGED <<uiVars, process, scheduler, published, cache, intervals,
                 timers, tasks, delivered, advanced>>

\* this.metrics after the body of trackNewUser(userId)
trackNewUser(m, userId) ==
  IF userId \in DOMAIN m.userEngagement
  THEN m
  ELSE [m EXCEPT !.totalUsers = @ + 1,
                 !.userEngagement = Put(@, userId, [commandsUsed |-> 0])]

\* saveMetrics(): the file gets this.metrics as it is at the call
saveMetrics(ms) == [ms EXCEPT !.file = [exists |-> TRUE, data |-> ms.metrics]]

\* trackNewUser(userId) called by a handler: a new user is counted and saved
TrackNewUser(userId) ==
  /\ metrics.load # "none"
  /\ metrics.made < MaxCalls
  /\ LET tracked == [metrics EXCEPT !.metrics = trackNewUser(@, userId),
                                    !.made = @ + 1,
                                    !.seen = @ \cup {userId}]
     IN metrics' = IF userId \in DOMAIN metrics.metrics.userEngagement
                   THEN tracked
                   ELSE saveMetrics(tracked)
  /\ UNCHANGED <<uiVars, process, scheduler, published, cache, intervals,
                 timers, tasks, delivered, advanced>>

\* trackCommand(userId, command) up to `await this.trackNewUser(userId)`
TrackCommand(userId, command) ==
  /\ metrics.load # "none"
  /\ metrics.made < MaxCalls
  /\ LET tracked == [metrics EXCEPT
                       !.metrics = trackNewUser(@, userId),
                       !.made = @ + 1,
                       !.seen = @ \cup {userId},
                       !.calls = Append(@, [userId |-> userId, command |-> command])]
     IN metrics' = IF userId \in DOMAIN metrics.metrics.userEngagement
                   THEN tracked
                   ELSE saveMetrics(tracked)
  /\ UNCHANGED <<uiVars, process, scheduler, published, cache, intervals,
                 timers, tasks, delivered, advanced>>

\* trackCommand after the await: this.metrics.userEngagement[userId] is read
\* again; when the user is no longer there `user.lastSeen = ...` throws, else
\* the command is counted for the user and in commandUsage, and saved
TrackCommandResume(i) ==
  /\ i \in DOMAIN metrics.calls
  /\ LET call == metrics.calls[i]
         m == metrics.metrics
         ended == [metrics EXCEPT
                     !.calls = SubSeq(@, 1, i - 1) \o SubSeq(@, i + 1, Len(@)),
                     !.finished = Put(@, call.userId,
                                      IF call.userId \in DOMAIN @
                                      THEN @[call.userId] + 1 ELSE 1)]
     IN metrics' =
          IF call.userId \in DOMAIN m.userEngagement
          THEN saveMetrics([ended EXCEPT
                 !.metrics.userEngagement[call.userId].commandsUsed = @ + 1,
                 !.metrics.commandUsage =
                    Put(@, call.command,
                        IF call.command \in DOMAIN @ THEN @[call.command] + 1 ELSE 1)])
          ELSE ended
  /\ UNCHANGED <<uiVars, process, scheduler, published, cache, intervals,
                 timers, tasks, delivered, advanced>>

NextMetrics ==
  \/ \E f \in MetricsFiles : MetricsServiceNew(f)
  \/ ReadFile
  \/ LoadMetrics
  \/ \E u \in Users : TrackNewUser(u)
  \/ \E u \in Users, k \in Commands : TrackCommand(u, k)
  \/ \E i \in 1..MaxCalls : TrackCommandResume(i)

SpecMetrics == Init /\ [][NextMetrics]_vars

\* C39: totalUsers is the number of users in userEngagement, every user
\* tracked since construction is in userEngagement, and every trackCommand
\* call that has ended is counted in its user's commandsUsed
C39_NoTrackedUserLost ==
  LET m == metrics.metrics IN
  /\ m.totalUsers = Cardinality(DOMAIN m.userEngagement)
  /\ \A u \in metrics.seen : u \in DOMAIN m.userEngagement
  /\ \A u \in DOMAIN metrics.finished :
       /\ u \in DOMAIN m.userEngagement
       /\ m.userEngagement[u].commandsUsed >= metrics.finished[u]

====
